---- MODULE Spec2Model ----
(***************************************************************************)
(* Model of the step1 MCP server's tool handlers (package tools) and the   *)
(* SQLite store they share.  Every tool invocation is an operation record  *)
(* in `ops`; its `pc` is the position of the handler's goroutine.  Tool    *)
(* handlers run concurrently, one goroutine per call, over one *sql.DB,    *)
(* one filesystem, one docker daemon and one wall clock.                   *)
(*                                                                         *)
(* Strings that the code splits or joins are sequences of tokens: the port *)
(* mapping "8080:8080" is <<"8080", ":", "8080">>.                         *)
(***************************************************************************)
EXTENDS Integers, Sequences, FiniteSets, TLC

VARIABLES
    compose_files,  \* table compose_files, row id = index
    test_sessions,  \* table test_sessions
    services,       \* table services
    api_specs,      \* table api_specs
    tests,          \* table tests
    test_runs,      \* table test_runs
    metrics,        \* table metrics
    now,            \* time.Now().Unix()
    dirs,           \* directories under os.TempDir() that exist
    tmpFiles,       \* k6 script files and k6 JSON result files that exist
    projects,       \* docker compose projects that are up
    ops,            \* the tool invocations, in order of arrival
    faults,         \* store write failures injected so far
    probeOK,        \* the (port, path) pairs answering 200
    calls,          \* results of StoreComposeFile calls of the sequential caller
    store0,         \* what ./perf_test.db held when the server started
    env,            \* the environment: requests in flight, failures it may inject
    endpoints,      \* table endpoints
    reply           \* what the last read-only handler call returned

vars == <<compose_files, test_sessions, services, api_specs, tests, test_runs,
          metrics, now, dirs, tmpFiles, projects, ops, faults, probeOK, calls, store0, env,
          endpoints, reply>>

tables == <<compose_files, test_sessions, services, api_specs, tests, test_runs,
            metrics, endpoints>>

----------------------------------------------------------------------------
(* Bounds of the model *)

MaxOps == 2

MaxClock == 1

MaxFaults == 1

MaxCalls == 3

----------------------------------------------------------------------------
(* Inputs *)

NULL == "NULL"

\* the value SQLite stores for CURRENT_TIMESTAMP; only NULL or not is ever read
CURRENT_TIMESTAMP == "CURRENT_TIMESTAMP"

\* the composeSource arguments of the tool calls of the model
Sources == {"https://example.com/docker-compose.yml"}

Contents == {"web", "two", "bad"}

TestTypes == {"quick", "standard"}

\* yaml.Unmarshal into ComposeFile: the content "bad" does not parse.
YamlValid(content) == content # "bad"

\* compose.Services after yaml.Unmarshal (a Go map: a set of entries)
ComposeServices(content) ==
    CASE content = "web" ->
           {[name |-> "web", image |-> "nginx", ports |-> << <<"8080", ":", "8080">> >>]}
      [] content = "two" ->
           {[name |-> "api", image |-> "api", ports |-> << <<"3000", ":", "3000">> >>],
            [name |-> "db", image |-> "postgres", ports |-> << >>]}
      [] OTHER -> {}

\* md5.Sum + hex.EncodeToString: a digest of the content alone
Md5Hex(content) == <<"md5", content>>

----------------------------------------------------------------------------
(* strings.Join / strings.Split on token sequences *)

RECURSIVE Join(_, _)
Join(items, sep) ==
    IF items = << >> THEN << >>
    ELSE IF Len(items) = 1 THEN Head(items)
    ELSE Head(items) \o <<sep>> \o Join(Tail(items), sep)

RECURSIVE SplitFrom(_, _, _)
SplitFrom(s, sep, acc) ==
    IF s = << >> THEN <<acc>>
    ELSE IF Head(s) = sep THEN <<acc>> \o SplitFrom(Tail(s), sep, << >>)
    ELSE SplitFrom(Tail(s), sep, Append(acc, Head(s)))

Split(s, sep) == SplitFrom(s, sep, << >>)

----------------------------------------------------------------------------
(* The store: ids are AUTOINCREMENT row numbers *)

\* QueryRow("SELECT id FROM compose_files WHERE hash = ?"): the first row with
\* the hash, 0 for sql.ErrNoRows
SelectComposeByHash(cf, hash) ==
    IF \E k \in 1..Len(cf) : cf[k].hash = hash
    THEN CHOOSE k \in 1..Len(cf) :
            /\ cf[k].hash = hash
            /\ \A j \in 1..(k - 1) : cf[j].hash # hash
    ELSE 0

\* a row whose hash digests the source instead of the content
ComposeRowHashingSource(source, content) ==
    [source_url |-> source, content |-> content, hash |-> Md5Hex(source)]

\* the row of INSERT INTO compose_files (source_url, content, hash)
ComposeRow(source, content) ==
    [source_url |-> source, content |-> content, hash |-> Md5Hex(content)]

\* a session row naming a compose file that is not stored yet
SessionRowAheadOfCompose(cfid, name, status) ==
    [compose_file_id |-> cfid + 1, session_name |-> name, status |-> status,
     completed_at |-> NULL, completed_writes |-> 0]

\* the row of INSERT INTO test_sessions (compose_file_id, session_name, status)
SessionRow(cfid, name, status) ==
    [compose_file_id |-> cfid, session_name |-> name, status |-> status,
     completed_at |-> NULL, completed_writes |-> 0]

\* the row of INSERT INTO services (session_id, name, image, ports)
ServiceRow(sid, svc) ==
    [session_id |-> sid, name |-> svc.name, image |-> svc.image,
     ports |-> Join(svc.ports, ",")]

\* the columns of table test_sessions
SessionColumns ==
    {"id", "compose_file_id", "session_name", "started_at", "completed_at", "status"}

\* SELECT id, compose_file_id FROM test_sessions ORDER BY created_at DESC LIMIT 1:
\* 0 when the statement fails or there is no row
MostRecentSession(sessions) ==
    IF "created_at" \notin SessionColumns THEN 0 ELSE Len(sessions)

\* the status a handler writes when it creates its session
InitialStatus(kind) == IF kind = "setup" THEN "initialized" ELSE "running"

\* session_name without its time.Now().Unix() suffix, which no statement reads
SessionPrefix(kind) ==
    CASE kind = "setup" -> "session"
      [] kind = "testapp" -> "auto-test"
      [] OTHER -> "quick"

\* an UPDATE that sets the status and leaves completed_at alone
SessionUpdateStatusOnly(row) ==
    [row EXCEPT !.status = "completed"]

\* UPDATE test_sessions SET completed_at = CURRENT_TIMESTAMP, status = 'completed'
DeferredSessionUpdate(row) ==
    [row EXCEPT !.completed_at = CURRENT_TIMESTAMP, !.status = "completed",
                !.completed_writes = @ + 1]

----------------------------------------------------------------------------
(* Names of the external resources *)

\* filepath.Join(os.TempDir(), fmt.Sprintf("k6-test-%d-%d", sessionId, time.Now().Unix()))
TempDirName(sid, t) == <<"k6-test", sid, t>>

\* the -p argument of docker compose
ProjectName(kind, sid, t) ==
    CASE kind = "discover" -> <<"discover", sid>>
      [] kind = "testapp" -> <<"auto", sid>>
      [] kind = "quick" -> <<"quick", sid>>
      [] OTHER -> <<"perftest", t>>

----------------------------------------------------------------------------
(* Go's defer stack *)

\* deferred calls kept as a queue: first deferred, first run
PushDeferFifo(defers, d) == Append(defers, d)

\* defer f(): pushed on the goroutine's stack of deferred calls
PushDefer(defers, d) == <<d>> \o defers

\* the deferred call that runs next when the function returns or panics
TopDefer(defers) == Head(defers)

\* the stack after that call ran
PopDefer(defers) == Tail(defers)

\* what the caller receives for a handler's result: the handler's text, its
\* error result, or, after a panic, the error that the server's recovery
\* middleware (server.WithRecovery) makes of the recovered panic
Reported(result) ==
    CASE result = "ok" -> "text"
      [] result = "error" -> "tool_error"
      [] result = "panic" -> "recovered_panic"
      [] OTHER -> "none"

\* a return that runs no deferred call
ReturnSkippingDefers(o, res) ==
    [o EXCEPT !.result = res, !.pc = "done"]

\* the handler returns (or panics) with result res: deferred calls run next
Return(o, res) ==
    [o EXCEPT !.result = res,
              !.pc = IF o.defers = << >> THEN "done" ELSE "unwind"]

----------------------------------------------------------------------------
(* Discovery inside test_application *)

\* commonPaths of TestApplicationTool.Handle, in probing order
AutoCommonPaths == <<"/openapi.json", "/swagger.json", "/api-docs", "/api/v3/openapi.json">>

\* SELECT id, name, ports FROM services WHERE session_id = ?: the ids in row order
SessionServices(sid) ==
    LET RECURSIVE Scan(_)
        Scan(k) == IF k > Len(services) THEN << >>
                   ELSE IF services[k].session_id = sid THEN <<k>> \o Scan(k + 1)
                   ELSE Scan(k + 1)
    IN Scan(1)

\* strings.Split(strings.Split(ports, ",")[0], ":")[0], or << >> when the first
\* entry of the port list is empty
FirstHostPort(ports) ==
    LET portList == Split(ports, ",") IN
    IF Len(portList) > 0 /\ portList[1] # << >>
    THEN Split(portList[1], ":")[1]
    ELSE << >>

\* baseURL + path with baseURL = "http://localhost:" + port
SpecURL(port, path) == <<"http://localhost:">> \o port \o <<path>>

\* http.Get(url) answered with err == nil and StatusCode == 200
Probe200(url) == url \in probeOK

\* the first path of commonPaths (from position k) answering 200 on the port: the
\* inner loop breaks there; 0 when none answers
RECURSIVE FirstHit(_, _, _)
FirstHit(port, paths, k) ==
    IF k > Len(paths) THEN 0
    ELSE IF Probe200(SpecURL(port, paths[k])) THEN k
    ELSE FirstHit(port, paths, k + 1)

\* every path of commonPaths (from position k) answering 200 on the port
RECURSIVE AutoHits(_, _, _)
AutoHits(port, paths, k) ==
    IF k > Len(paths) THEN << >>
    ELSE (IF SpecURL(port, paths[k]) \in probeOK THEN <<SpecURL(port, paths[k])>> ELSE << >>)
         \o AutoHits(port, paths, k + 1)

\* a discovery without the `break`: every answering path of every service
RECURSIVE AutoDiscoveredAllPaths(_, _)
AutoDiscoveredAllPaths(rows, k) ==
    IF k > Len(rows) THEN << >>
    ELSE LET port == FirstHostPort(services[rows[k]].ports) IN
         (IF port = << >> THEN << >> ELSE AutoHits(port, AutoCommonPaths, 1))
         \o AutoDiscoveredAllPaths(rows, k + 1)

\* the URLs test_application's discovery finds for the service rows `rows`
\* (from position k): per service the first answering path, then `break`
RECURSIVE AutoDiscovered(_, _)
AutoDiscovered(rows, k) ==
    IF k > Len(rows) THEN << >>
    ELSE LET port == FirstHostPort(services[rows[k]].ports)
             hit == IF port = << >> THEN 0 ELSE FirstHit(port, AutoCommonPaths, 1) IN
         (IF hit = 0 THEN << >> ELSE <<SpecURL(port, AutoCommonPaths[hit])>>)
         \o AutoDiscovered(rows, k + 1)

\* commonPaths of DiscoverSpecsTool.Handle, in probing order
DiscoverCommonPaths ==
    <<"/swagger.json", "/openapi.json", "/api-docs", "/v2/api-docs", "/v3/api-docs",
      "/api/swagger.json", "/api/openapi.json", "/api/v3/openapi.json">>

\* every path of commonPaths (from position k) answering 200 on the port:
\* discover_api_specs does not break out of its inner loop
RECURSIVE AllHits(_, _, _)
AllHits(port, paths, k) ==
    IF k > Len(paths) THEN << >>
    ELSE (IF Probe200(SpecURL(port, paths[k])) THEN <<SpecURL(port, paths[k])>>
          ELSE << >>)
         \o AllHits(port, paths, k + 1)

\* a discovery that stops at the first answering path of a service
RECURSIVE DiscoveredFirstPathOnly(_, _)
DiscoveredFirstPathOnly(rows, k) ==
    IF k > Len(rows) THEN << >>
    ELSE LET port == FirstHostPort(services[rows[k]].ports)
             hit == IF port = << >> THEN 0 ELSE FirstHit(port, DiscoverCommonPaths, 1) IN
         (IF hit = 0 THEN << >> ELSE <<SpecURL(port, DiscoverCommonPaths[hit])>>)
         \o DiscoveredFirstPathOnly(rows, k + 1)

\* the URLs the autoDiscover block of discover_api_specs finds for the service
\* rows `rows` (from position k)
RECURSIVE Discovered(_, _)
Discovered(rows, k) ==
    IF k > Len(rows) THEN << >>
    ELSE LET port == FirstHostPort(services[rows[k]].ports) IN
         (IF port = << >> THEN << >> ELSE AllHits(port, DiscoverCommonPaths, 1))
         \o Discovered(rows, k + 1)

\* strings.TrimSpace: the string without its leading and trailing white space
\* (the token " ")
RECURSIVE TrimSpace(_)
TrimSpace(str) ==
    IF str = << >> THEN << >>
    ELSE IF Head(str) = " " THEN TrimSpace(Tail(str))
    ELSE IF str[Len(str)] = " " THEN TrimSpace(SubSeq(str, 1, Len(str) - 1))
    ELSE str

\* the entries appended for a specPaths argument: none for the empty string,
\* else strings.TrimSpace of every part of strings.Split(specPaths, ",")
ExplicitSpecs(specPaths) ==
    IF specPaths = << >> THEN << >>
    ELSE LET paths == Split(specPaths, ",") IN
         [k \in 1..Len(paths) |-> TrimSpace(paths[k])]

\* a list in which the probed URLs come before the caller's entries
DiscoveredSpecsAutoFirst(specPaths, autoDiscover, rows) ==
    (IF autoDiscover THEN Discovered(rows, 1) ELSE << >>) \o ExplicitSpecs(specPaths)

\* `discovered` of discover_api_specs after both blocks: the entries of
\* specPaths, then, with autoDiscover, the URLs that answered 200
DiscoveredSpecs(specPaths, autoDiscover, rows) ==
    ExplicitSpecs(specPaths) \o (IF autoDiscover THEN Discovered(rows, 1) ELSE << >>)

\* an INSERT loop that ends at the first INSERT that fails
RECURSIVE SpecRowsUntilFailure(_, _, _, _)
SpecRowsUntilFailure(sid, urls, k, bad) ==
    IF k > Len(urls) \/ k = bad THEN << >>
    ELSE <<[session_id |-> sid, spec_url |-> urls[k]]>>
         \o SpecRowsUntilFailure(sid, urls, k + 1, bad)

\* the rows of INSERT INTO api_specs (session_id, spec_url) for the URLs `urls`,
\* when the INSERT at position bad (0: none) fails
RECURSIVE SpecRows(_, _, _, _)
SpecRows(sid, urls, k, bad) ==
    IF k > Len(urls) THEN << >>
    ELSE (IF k = bad THEN << >> ELSE <<[session_id |-> sid, spec_url |-> urls[k]]>>)
         \o SpecRows(sid, urls, k + 1, bad)

----------------------------------------------------------------------------
(* Test generation and execution *)

\* testVus of test_application's switch on testType
TestVus(testType) ==
    CASE testType = "quick" -> 10
      [] testType = "thorough" -> 100
      [] OTHER -> 50

\* the type column test_application writes for its generated test
AutoTestType == "load"

\* the row of test_application's INSERT INTO tests
AutoTestRow(sid) == [session_id |-> sid, name |-> "auto-load-test", type |-> AutoTestType]

\* a run row inserted with its completion time already set
RunRowCompleted(tid, vus) ==
    [test_id |-> tid, vus |-> vus, completed_at |-> CURRENT_TIMESTAMP, results |-> NULL,
     completed_writes |-> 0]

\* the row of INSERT INTO test_runs (test_id, vus, duration)
RunRow(tid, vus) ==
    [test_id |-> tid, vus |-> vus, completed_at |-> NULL, results |-> NULL,
     completed_writes |-> 0]

\* an UPDATE of the run that also resets its vus column
CompleteRunResettingVus(row, kind) ==
    [row EXCEPT !.completed_at = CURRENT_TIMESTAMP,
                !.results = IF kind = "run" THEN "output" ELSE @,
                !.vus = 0,
                !.completed_writes = @ + 1]

\* an UPDATE of the run that writes the results column only
CompleteRunResultsOnly(row, kind) ==
    [row EXCEPT !.results = IF kind = "run" THEN "output" ELSE @]

\* the row after UPDATE test_runs SET completed_at = CURRENT_TIMESTAMP [, results = ?];
\* only run_performance_test writes the results column
CompleteRun(row, kind) ==
    [row EXCEPT !.completed_at = CURRENT_TIMESTAMP,
                !.results = IF kind = "run" THEN "output" ELSE @,
                !.completed_writes = @ + 1]

\* a metrics row that names the run after the handler's own
MetricRowOfNextRun(rid) ==
    [run_id |-> rid + 1, endpoint |-> "/api/endpoint", avg_response_time |-> 1505,
     error_rate |-> 200]

\* the row of ParseAndStoreMetrics.  REAL columns are fixed-point numbers:
\* response times in tenths of a millisecond (150.5 ms), error rates in
\* hundredths of a percent (0.02)
MetricRow(rid) ==
    [run_id |-> rid, endpoint |-> "/api/endpoint", avg_response_time |-> 1505,
     error_rate |-> 200]

----------------------------------------------------------------------------
(* Tool invocations *)

NewOp(kind) ==
    [kind |-> kind, pc |-> "start",
     content |-> "", testType |-> "", testArg |-> 0,
     cfid |-> 0, sid |-> 0, tid |-> 0, rid |-> 0,
     composePath |-> << >>, projectName |-> << >>,
     defers |-> << >>, result |-> "none",
     ups |-> << >>, downs |-> << >>, removed |-> FALSE,
     k6 |-> "none", fault |-> FALSE, failed |-> {},
     stopFailed |-> FALSE, stopLog |-> << >>, cancelled |-> "no"]

\* the environment may still make a store write or a file creation fail
MayFail == faults < env.faults

\* outcomes of a store write or a file creation: TRUE is success
Outcomes == IF MayFail THEN {TRUE, FALSE} ELSE {TRUE}

\* the failing statement of a block of statements: "" when none fails
FailureOf(stmts) == IF MayFail THEN {""} \cup stmts ELSE {""}

Inject(ok) == faults' = IF ok THEN faults ELSE faults + 1

At(i, pc) == i \in 1..Len(ops) /\ ops[i].pc = pc

SetOp(i, o) == ops' = [ops EXCEPT ![i] = o]

\* the current second has been read by time.Now().Unix(): it names a directory
\* or a project
Observed(t) ==
    \/ \E d \in dirs : d[3] = t
    \/ \E i \in 1..Len(ops) :
          \/ ops[i].composePath # << >> /\ ops[i].composePath[3] = t
          \/ ops[i].projectName = <<"perftest", t>>

\* the wall clock advances.  `now` counts the seconds that some handler read:
\* only equality of two readings is ever visible (in the names of directories
\* and projects), so a second nobody read is not counted
Tick ==
    /\ now < MaxClock
    /\ Observed(now)
    /\ now' = now + 1
    /\ UNCHANGED <<tables, dirs, tmpFiles, projects, ops, faults, probeOK, calls, store0, env, reply>>

InFlight == Cardinality({i \in 1..Len(ops) : ops[i].pc # "done"})

\* the MCP server dispatches a tools/call request to its handler: a new goroutine
Arrive(o) ==
    /\ Len(ops) < MaxOps
    /\ InFlight < env.parallel
    /\ ops' = Append(ops, o)

\* the caller cancels the request while its handler runs: the handler's ctx is
\* done from then on.  `cancelled` keeps the handler's position at that moment
Cancel(i) ==
    /\ env.cancel
    /\ i \in 1..Len(ops)
    /\ ops[i].pc # "done"
    /\ ops[i].cancelled = "no"
    /\ SetOp(i, [ops[i] EXCEPT !.cancelled = ops[i].pc])
    /\ UNCHANGED <<tables, now, dirs, tmpFiles, projects, faults, probeOK, calls, store0, env, reply>>

\* the exit statuses a command started with exec.CommandContext(ctx, ...) can
\* have (TRUE: zero): with ctx done the command is not started or is killed
CommandOutcomes(o) == IF o.cancelled # "no" THEN {FALSE} ELSE BOOLEAN

\* the handlers that return an error when yaml.Unmarshal of the content fails:
\* test_application ignores the error and quick_performance_test does not parse
ValidatesCompose(kind) == kind = "setup"

\* a handler that goes on with empty content when the fetch failed
AfterFetchIgnoringError(o, got) ==
    IF got = "error" THEN [o EXCEPT !.failed = @ \cup {"fetch"}, !.pc = "scf_select"]
    ELSE [o EXCEPT !.content = got, !.pc = "scf_select"]

\* the handler after FetchComposeContent(source) returned got ("error": it
\* returned an error): the error result, the validation error, or on to
\* StoreComposeFile
AfterFetch(o, got) ==
    IF got = "error" THEN Return([o EXCEPT !.failed = @ \cup {"fetch"}], "error")
    ELSE IF ValidatesCompose(o.kind) /\ ~YamlValid(got)
         THEN Return([o EXCEPT !.content = got], "error")
    ELSE [o EXCEPT !.content = got, !.pc = "scf_select"]

\* setup_test_environment, test_application and quick_performance_test start with
\* FetchComposeContent(source); setup_test_environment then validates the content
\* with yaml.Unmarshal
InvokeCompose(kind) ==
    /\ \E got \in env.contents \cup {"error"} :
         Arrive(AfterFetch(NewOp(kind), got))
    /\ UNCHANGED <<tables, now, dirs, tmpFiles, projects, faults, probeOK, calls, store0, env, reply>>

\* a lookup by id that answers as if the row existed but was empty
NotFoundAsEmptySuccess(o) == Return(o, "ok")

\* QueryRow(...WHERE id = ?).Scan failed (sql.ErrNoRows): the handler returns the
\* error result "Test not found" or "Spec not found"
NotFoundResult(o) == Return(o, "error")

\* discover_api_specs: the most recent session and its compose content
InvokeDiscover ==
    /\ LET o == NewOp("discover")
           sid == MostRecentSession(test_sessions) IN
         IF sid = 0 THEN Arrive(Return(o, "error"))
         ELSE Arrive([o EXCEPT !.sid = sid,
                               !.cfid = test_sessions[sid].compose_file_id,
                               !.content =
                                   compose_files[test_sessions[sid].compose_file_id].content,
                               !.pc = "write"])
    /\ UNCHANGED <<tables, now, dirs, tmpFiles, projects, faults, probeOK, calls, store0, env, reply>>

\* run_performance_test: SELECT script, session_id FROM tests WHERE id = ?, then
\* the compose content of that session through the join
InvokeRun ==
    /\ \E testId \in 1..(Len(tests) + 1) :
         LET o == [NewOp("run") EXCEPT !.testArg = testId] IN
         IF testId > Len(tests) THEN Arrive(NotFoundResult(o))
         ELSE LET sid == tests[testId].session_id IN
              Arrive([o EXCEPT !.tid = testId, !.sid = sid,
                               !.cfid = test_sessions[sid].compose_file_id,
                               !.content =
                                   compose_files[test_sessions[sid].compose_file_id].content,
                               !.pc = "write"])
    /\ UNCHANGED <<tables, now, dirs, tmpFiles, projects, faults, probeOK, calls, store0, env, reply>>

\* the testType arguments of generate_api_tests in the model
GenerateTypes == {"load", "stress"}

\* the row of generate_api_tests' INSERT INTO tests
ApiTestRow(sid, testType) == [session_id |-> sid, name |-> "api-test", type |-> testType]

\* generate_api_tests: SELECT session_id FROM api_specs WHERE id = ?, then
\* INSERT INTO tests, its error returned
InvokeGenerate ==
    /\ \E specId \in 1..(Len(api_specs) + 1), testType \in GenerateTypes, ok \in Outcomes :
         LET o == [NewOp("generate") EXCEPT !.testArg = specId, !.testType = testType] IN
         IF specId > Len(api_specs)
         THEN /\ Arrive(NotFoundResult(o))
              /\ UNCHANGED <<tests, faults>>
         ELSE LET sid == api_specs[specId].session_id IN
              /\ Inject(ok)
              /\ tests' = IF ok THEN Append(tests, ApiTestRow(sid, testType)) ELSE tests
              /\ Arrive(Return([o EXCEPT !.sid = sid,
                                         !.tid = IF ok THEN Len(tests) + 1 ELSE 0,
                                         !.fault = ~ok,
                                         !.failed = IF ok THEN {} ELSE {"tests"}],
                                IF ok THEN "ok" ELSE "error"))
    /\ UNCHANGED <<compose_files, test_sessions, services, api_specs, test_runs, metrics,
                   now, dirs, tmpFiles, projects, probeOK, calls, store0, env,
                   endpoints, reply>>

\* the row of create_ui_test's INSERT INTO tests
UITestRow(sid) == [session_id |-> sid, name |-> "ui-test", type |-> "browser"]

\* create_ui_test: the most recent session, then INSERT INTO tests, its error
\* returned
InvokeCreateUITest ==
    /\ \E ok \in Outcomes :
         LET o == NewOp("uitest")
             sid == MostRecentSession(test_sessions) IN
         IF sid = 0
         THEN /\ Arrive(Return(o, "error"))
              /\ UNCHANGED <<tests, faults>>
         ELSE /\ Inject(ok)
              /\ tests' = IF ok THEN Append(tests, UITestRow(sid)) ELSE tests
              /\ Arrive(Return([o EXCEPT !.sid = sid,
                                         !.tid = IF ok THEN Len(tests) + 1 ELSE 0,
                                         !.fault = ~ok,
                                         !.failed = IF ok THEN {} ELSE {"tests"}],
                                IF ok THEN "ok" ELSE "error"))
    /\ UNCHANGED <<compose_files, test_sessions, services, api_specs, test_runs, metrics,
                   now, dirs, tmpFiles, projects, probeOK, calls, store0, env,
                   endpoints, reply>>

----------------------------------------------------------------------------
(* StoreComposeFile and the session *)

\* StoreComposeFile: the SELECT by hash; a hit returns the existing id
StoreComposeFileSelect(i) ==
    /\ At(i, "scf_select")
    /\ LET o == ops[i]
           id == SelectComposeByHash(compose_files, Md5Hex(o.content)) IN
         IF id # 0 THEN SetOp(i, [o EXCEPT !.cfid = id, !.pc = "session"])
         ELSE SetOp(i, [o EXCEPT !.pc = "scf_insert"])
    /\ UNCHANGED <<tables, now, dirs, tmpFiles, projects, faults, probeOK, calls, store0, env, reply>>

\* StoreComposeFile: the INSERT after a miss
StoreComposeFileInsert(i) ==
    /\ At(i, "scf_insert")
    /\ \E source \in Sources, ok \in Outcomes :
         /\ Inject(ok)
         /\ LET o == ops[i] IN
            IF ok
            THEN /\ compose_files' = Append(compose_files, ComposeRow(source, o.content))
                 /\ SetOp(i, [o EXCEPT !.cfid = Len(compose_files) + 1, !.pc = "session"])
            ELSE /\ UNCHANGED compose_files
                 /\ SetOp(i, Return([o EXCEPT !.fault = TRUE, !.failed = @ \cup {"compose"}],
                                    "error"))
    /\ UNCHANGED <<test_sessions, services, api_specs, tests, test_runs, metrics,
                   now, dirs, tmpFiles, projects, probeOK, calls, store0, env,
                   endpoints, reply>>

\* StoreComposeFile(db, source, content) run without interruption on the table
\* cf: the id it returns (0 with an error) and the table it leaves; ok is
\* whether the INSERT, if it comes to it, succeeds
StoreComposeFile(cf, source, content, ok) ==
    LET existingId == SelectComposeByHash(cf, Md5Hex(content)) IN
    IF existingId # 0 THEN [id |-> existingId, table |-> cf]
    ELSE IF ok THEN [id |-> Len(cf) + 1, table |-> Append(cf, ComposeRow(source, content))]
    ELSE [id |-> 0, table |-> cf]

\* services stored once per compose file: none for a session on a file that an
\* earlier session already uses
StoredServicesOncePerFile(o) ==
    IF o.kind = "quick" \/ \E k \in 1..Len(test_sessions) :
                              test_sessions[k].compose_file_id = o.cfid
    THEN {}
    ELSE ComposeServices(o.content)

\* every handler that creates a session stores the services of its file
StoredServicesByEveryHandler(o) == ComposeServices(o.content)

\* the services a handler stores for its new session: quick_performance_test
\* stores none
StoredServices(o) == IF o.kind = "quick" THEN {} ELSE ComposeServices(o.content)

\* the orders in which `range compose.Services` can visit a Go map
Orders(S) ==
    {seq \in [1..Cardinality(S) -> S] : \A a, b \in 1..Cardinality(S) :
                                            a # b => seq[a] # seq[b]}

\* a loop over the services that ends at the first INSERT that fails
RECURSIVE ServiceRowsUntilFailure(_, _, _, _)
ServiceRowsUntilFailure(sid, seq, k, bad) ==
    IF k > Len(seq) \/ k = bad THEN << >>
    ELSE <<ServiceRow(sid, seq[k])>> \o ServiceRowsUntilFailure(sid, seq, k + 1, bad)

\* the rows appended by the loop visiting the services in order seq, when the
\* INSERT of the service at position bad (0: none) fails
RECURSIVE ServiceRows(_, _, _, _)
ServiceRows(sid, seq, k, bad) ==
    IF k > Len(seq) THEN << >>
    ELSE (IF k = bad THEN << >> ELSE <<ServiceRow(sid, seq[k])>>)
         \o ServiceRows(sid, seq, k + 1, bad)

\* INSERT INTO test_sessions, its error returned; then
\* `for name, service := range compose.Services { INSERT INTO services }`, where
\* a failed INSERT is logged (setup_test_environment) or ignored
\* (test_application) and the loop goes on.  setup_test_environment returns
\* its summary after the loop.
CreateSession(i) ==
    /\ At(i, "session")
    /\ LET o == ops[i]
           sid == Len(test_sessions) + 1 IN
       \/ /\ MayFail
          /\ Inject(FALSE)
          /\ SetOp(i, Return([o EXCEPT !.fault = TRUE, !.failed = @ \cup {"session"}],
                             "error"))
          /\ UNCHANGED <<test_sessions, services>>
       \/ \E seq \in Orders(StoredServices(o)) : \E bad \in 0..Len(seq) :
            /\ bad # 0 => MayFail
            /\ Inject(bad = 0)
            /\ test_sessions' = Append(test_sessions,
                   SessionRow(o.cfid, SessionPrefix(o.kind), InitialStatus(o.kind)))
            /\ services' = services \o ServiceRows(sid, seq, 1, bad)
            /\ LET o2 == [o EXCEPT !.sid = sid, !.fault = @ \/ bad # 0,
                                   !.failed = IF bad # 0 THEN @ \cup {"services"} ELSE @] IN
               SetOp(i, IF o.kind = "setup" THEN Return(o2, "ok")
                        ELSE [o2 EXCEPT !.pc = "write"])
    /\ UNCHANGED <<compose_files, api_specs, tests, test_runs, metrics,
                   now, dirs, tmpFiles, projects, probeOK, calls, store0, env,
                   endpoints, reply>>

----------------------------------------------------------------------------
(* The bring-up / tear-down bracket *)

\* WriteComposeToTemp, and on success `defer os.RemoveAll(filepath.Dir(composePath))`.
\* bad = "mkdir": os.MkdirAll fails; "write": os.WriteFile fails
WriteComposeToTemp(i) ==
    /\ At(i, "write")
    /\ \E bad \in FailureOf({"mkdir", "write"}) :
         /\ Inject(bad = "")
         /\ LET o == ops[i]
                tempDir == TempDirName(o.sid, now) IN
            CASE bad = "mkdir" ->
                   /\ UNCHANGED dirs
                   /\ SetOp(i, Return([o EXCEPT !.fault = TRUE, !.failed = @ \cup {bad}],
                                      "error"))
              [] bad = "write" ->
                   /\ dirs' = dirs \cup {tempDir}
                   /\ SetOp(i, Return([o EXCEPT !.fault = TRUE, !.failed = @ \cup {bad}],
                                      "error"))
              [] OTHER ->
                   /\ dirs' = dirs \cup {tempDir}
                   /\ SetOp(i, [o EXCEPT !.composePath = tempDir,
                                         !.defers = PushDefer(@, "rmdir"),
                                         !.pc = "up"])
    /\ UNCHANGED <<tables, now, tmpFiles, projects, probeOK, calls, store0, env, reply>>

\* a handler that registers no tear-down after bring-up
DeferDownOmitted(defers) == defers

\* the deferred calls of a handler after docker compose up succeeded:
\* `defer func() { docker compose down -v ... }()` is registered
DeferDown(defers) == PushDefer(defers, "down")

\* a handler that goes on right after the bring-up
SettleWaitSkipped(o) == [o EXCEPT !.pc = "prepare"]

\* after a successful bring-up the handler sleeps its settle interval
\* (time.Sleep of 10 or 15 seconds) before it does anything else
SettleWait(o) == [o EXCEPT !.pc = "sleep"]

\* docker compose -f composePath -p projectName up -d; a failed up may have
\* started part of the project
BringUp(i) ==
    /\ At(i, "up")
    /\ \E ok \in CommandOutcomes(ops[i]) :
         LET o == ops[i]
             name == ProjectName(o.kind, o.sid, now) IN
         IF ok
         THEN /\ projects' = projects \cup {name}
              /\ SetOp(i, SettleWait([o EXCEPT !.projectName = name,
                                               !.ups = Append(@, <<o.composePath, name>>),
                                               !.defers = DeferDown(@)]))
         ELSE /\ \E started \in BOOLEAN :
                   projects' = IF started THEN projects \cup {name} ELSE projects
              /\ SetOp(i, Return([o EXCEPT !.projectName = name], "error"))
    /\ UNCHANGED <<tables, now, dirs, tmpFiles, faults, probeOK, calls, store0, env, reply>>

\* time.Sleep(10 or 15 seconds) after bring-up: a later reading of the clock
\* differs from every reading made before the sleep.  test_application and
\* discover_api_specs then run their discovery loops over the service rows and
\* store what they found; the error of a failed INSERT INTO api_specs is
\* dropped or logged.  discover_api_specs returns its list after that.
Sleep(i) ==
    /\ At(i, "sleep")
    /\ now' = IF Observed(now) THEN now + 1 ELSE now
    /\ LET o == ops[i]
           urls == CASE o.kind = "testapp" -> AutoDiscovered(SessionServices(o.sid), 1)
                     [] o.kind = "discover" ->
                          DiscoveredSpecs(<< >>, TRUE, SessionServices(o.sid))
                     [] OTHER -> << >> IN
       \E bad \in 0..Len(urls) :
         /\ bad # 0 => MayFail
         /\ Inject(bad = 0)
         /\ api_specs' = api_specs \o SpecRows(o.sid, urls, 1, bad)
         /\ LET o2 == [o EXCEPT !.fault = @ \/ bad # 0,
                                !.failed = IF bad # 0 THEN @ \cup {"specs"} ELSE @] IN
            SetOp(i, IF o.kind = "discover" THEN Return(o2, "ok")
                     ELSE [o2 EXCEPT !.pc = "prepare"])
    /\ UNCHANGED <<compose_files, test_sessions, services, tests, test_runs, metrics,
                   dirs, tmpFiles, projects, probeOK, calls, store0, env,
                   endpoints, reply>>

----------------------------------------------------------------------------
(* Running the load tool *)

\* the file os.CreateTemp("", "k6-...-*.js") creates for handler i: a fresh name
ScriptFile(i) == <<"script", i>>

\* outputFile of run_performance_test: /tmp/k6-results-<runId>.json
ResultsFile(rid) == <<"results", rid>>

\* the statements between the settle wait (or discovery) and the start of k6
\* that can fail: INSERT INTO tests (test_application), os.CreateTemp,
\* INSERT INTO test_runs (not in quick_performance_test)
PrepareStatements(kind) ==
    CASE kind = "testapp" -> {"tests", "tmpfile", "runs"}
      [] kind = "run" -> {"tmpfile", "runs"}
      [] OTHER -> {"tmpfile"}

\* how the handler leaves when the statement fails: an error result where the
\* error is checked; a panic where it is dropped and the nil sql.Result or nil
\* *os.File is used (LastInsertId(), tmpFile.Name())
PrepareFailure(kind, bad) ==
    IF bad = "tmpfile" /\ kind # "testapp" THEN "error" ELSE "panic"

\* the vus a handler passes to k6 and stores in its run row
RunVus(o) == IF o.kind = "testapp" THEN TestVus(o.testType) ELSE 10

\* test_application: generate the script and INSERT INTO tests; all three:
\* os.CreateTemp with `defer os.Remove(tmpFile.Name())`; test_application and
\* run_performance_test: INSERT INTO test_runs; then k6 is started
Prepare(i) ==
    /\ At(i, "prepare")
    /\ \E testType \in (IF ops[i].kind = "testapp" THEN TestTypes ELSE {""}),
          bad \in FailureOf(PrepareStatements(ops[i].kind)) :
         LET o == [ops[i] EXCEPT !.testType = testType, !.fault = @ \/ bad # "",
                                 !.failed = IF bad # "" THEN @ \cup {bad} ELSE @]
             hasTest == o.kind = "testapp" /\ bad # "tests"
             hasFile == bad \notin {"tests", "tmpfile"}
             hasRun == o.kind # "quick" /\ bad = ""
             tid == IF hasTest THEN Len(tests) + 1 ELSE o.tid
             o2 == [o EXCEPT !.tid = tid,
                             !.rid = IF hasRun THEN Len(test_runs) + 1 ELSE @,
                             !.defers = IF hasFile THEN PushDefer(@, "rmfile") ELSE @] IN
         /\ Inject(bad = "")
         /\ tests' = IF hasTest THEN Append(tests, AutoTestRow(o.sid)) ELSE tests
         /\ tmpFiles' = IF hasFile THEN tmpFiles \cup {ScriptFile(i)} ELSE tmpFiles
         /\ test_runs' = IF hasRun THEN Append(test_runs, RunRow(tid, RunVus(o)))
                         ELSE test_runs
         /\ SetOp(i, IF bad = "" THEN [o2 EXCEPT !.pc = "k6"]
                     ELSE Return(o2, PrepareFailure(o.kind, bad)))
    /\ UNCHANGED <<compose_files, test_sessions, services, api_specs, metrics,
                   now, dirs, projects, probeOK, calls, store0, env,
                   endpoints, reply>>

\* whether the handler goes on to record the run after k6 exited:
\* test_application drops the exit status; run_performance_test returns an
\* error result on a non-zero exit; quick_performance_test records no run
RecordsRun(kind, ok) ==
    CASE kind = "testapp" -> TRUE
      [] kind = "run" -> ok
      [] OTHER -> FALSE

\* the result of the handler after k6 exited
ResultAfterK6(kind, ok) == IF kind = "testapp" \/ ok THEN "ok" ELSE "error"

\* k6 exits (CombinedOutput returns), in run_performance_test having written
\* its --out json= file, which a failed k6 may or may not have created; then
\* UPDATE test_runs and, in run_performance_test, ParseAndStoreMetrics, both
\* errors dropped; then return
FinishK6(i) ==
    /\ At(i, "k6")
    /\ LET o == ops[i] IN
       \E ok \in CommandOutcomes(o),
          bad \in FailureOf(IF o.kind = "run" THEN {"update", "metrics"}
                            ELSE {"update"}) :
         LET records == RecordsRun(o.kind, ok) IN
         /\ bad # "" => records
         /\ \E written \in (IF ok THEN {TRUE} ELSE BOOLEAN) :
              tmpFiles' = IF o.kind = "run" /\ written
                          THEN tmpFiles \cup {ResultsFile(o.rid)} ELSE tmpFiles
         /\ Inject(bad = "")
         /\ test_runs' = IF records /\ bad # "update"
                         THEN [test_runs EXCEPT ![o.rid] = CompleteRun(@, o.kind)]
                         ELSE test_runs
         /\ metrics' = IF records /\ o.kind = "run" /\ bad # "metrics"
                       THEN Append(metrics, MetricRow(o.rid))
                       ELSE metrics
         /\ SetOp(i, Return([o EXCEPT !.k6 = IF ok THEN "ok" ELSE "fail",
                                      !.fault = @ \/ bad # "",
                                      !.failed = IF bad # "" THEN @ \cup {bad} ELSE @],
                            ResultAfterK6(o.kind, ok)))
    /\ UNCHANGED <<compose_files, test_sessions, services, api_specs, tests,
                   now, dirs, projects, probeOK, calls, store0, env,
                   endpoints, reply>>

----------------------------------------------------------------------------
(* Deferred calls *)

\* a tear-down command bound to the request's ctx
DownAbortedByCancel(o) == o.cancelled # "no"

\* whether the cancellation of the request keeps the tear-down command from
\* running: the handlers start it with exec.Command, which carries no ctx
DownAborted(o) == FALSE

\* whether the handler's deferred tear-down passes the error of
\* stopCmd.Run() to LogContainerOperation("stop", ...): test_application
\* discards it
LogsStop(kind) == kind # "testapp"

\* the entries of the stop log after a tear-down that stopped the project or not
StopLogged(o, stopped) ==
    IF LogsStop(o.kind) THEN Append(o.stopLog, IF stopped THEN "ok" ELSE "fail")
    ELSE o.stopLog

\* the next deferred call of a returning (or panicking) handler runs
Unwind(i) ==
    /\ At(i, "unwind")
    /\ LET o == ops[i]
           d == TopDefer(o.defers)
           rest == PopDefer(o.defers)
           after == [o EXCEPT !.defers = rest,
                              !.pc = IF rest = << >> THEN "done" ELSE "unwind"] IN
         CASE d = "rmfile" ->
                \* os.Remove(tmpFile.Name())
                /\ tmpFiles' = tmpFiles \ {ScriptFile(i)}
                /\ SetOp(i, after)
                /\ UNCHANGED <<test_sessions, dirs, projects, faults>>
           [] d = "down" ->
                \* docker compose -f composePath -p projectName down -v, which
                \* may fail and leave the project up; in test_application
                \* followed by the UPDATE of the session
                /\ \E stopped \in (IF DownAborted(o) THEN {FALSE} ELSE BOOLEAN),
                      ok \in (IF o.kind = "testapp" THEN Outcomes ELSE {TRUE}) :
                     /\ projects' = IF stopped THEN projects \ {o.projectName}
                                    ELSE projects
                     /\ Inject(ok)
                     /\ test_sessions' =
                          IF o.kind = "testapp" /\ ok
                          THEN [test_sessions EXCEPT ![o.sid] = DeferredSessionUpdate(@)]
                          ELSE test_sessions
                     /\ SetOp(i, [after EXCEPT
                                    !.downs = IF DownAborted(o) THEN @
                                              ELSE Append(@, <<o.composePath,
                                                               o.projectName>>),
                                    !.stopFailed = ~stopped,
                                    !.stopLog = StopLogged(o, stopped),
                                    !.fault = @ \/ ~ok,
                                    !.failed = IF ok THEN @ ELSE @ \cup {"status"}])
                /\ UNCHANGED <<tmpFiles, dirs>>
           [] OTHER ->
                \* os.RemoveAll(filepath.Dir(composePath))
                /\ dirs' = dirs \ {o.composePath}
                /\ SetOp(i, [after EXCEPT !.removed = TRUE])
                /\ UNCHANGED <<test_sessions, tmpFiles, projects, faults>>
    /\ UNCHANGED <<compose_files, services, api_specs, tests, test_runs, metrics,
                   now, probeOK, calls, store0, env,
                   endpoints, reply>>

----------------------------------------------------------------------------
(* The server *)

\* the stub HTTP layers of the model: which URLs answer 200
ProbeEnvs ==
    { {SpecURL(<<"8080">>, "/openapi.json")},
      {SpecURL(<<"8080">>, "/openapi.json"), SpecURL(<<"8080">>, "/swagger.json"),
       SpecURL(<<"3000">>, "/api-docs")} }

\* initDB opens ./perf_test.db and creates the tables IF NOT EXISTS: the store is
\* empty on the first start and holds the rows of earlier server runs afterwards.
\* "seeded" is the store an earlier, successful test_application of "web" left.
InitStore(s0) ==
    IF s0 = "empty"
    THEN /\ compose_files = << >>
         /\ test_sessions = << >>
         /\ services = << >>
         /\ api_specs = << >>
         /\ tests = << >>
         /\ test_runs = << >>
    ELSE /\ compose_files = <<ComposeRow("./docker-compose.yml", "web")>>
         /\ test_sessions =
              <<DeferredSessionUpdate(SessionRow(1, SessionPrefix("testapp"),
                                                 InitialStatus("testapp")))>>
         /\ services = <<ServiceRow(1, CHOOSE svc \in ComposeServices("web") : TRUE)>>
         /\ api_specs = <<[session_id |-> 1,
                           spec_url |-> SpecURL(<<"8080">>, "/openapi.json")]>>
         /\ tests = <<AutoTestRow(1)>>
         /\ test_runs = <<CompleteRun(RunRow(1, TestVus("standard")), "testapp")>>

\* no read-only handler has been called
NoReply == [tool |-> "none"]

\* The environments of the model: a client with MaxOps requests in flight
\* for one compose file over a store and a filesystem that do not fail; a
\* client that sends one request at a time, for any compose file, while up to
\* MaxFaults store writes or file creations fail; and a client that sends one
\* request at a time for one compose file and may cancel it.
Envs ==
    {[parallel |-> MaxOps, faults |-> 0, contents |-> {"web"}, cancel |-> FALSE],
     [parallel |-> 1, faults |-> MaxFaults, contents |-> Contents, cancel |-> FALSE],
     [parallel |-> 1, faults |-> 0, contents |-> {"web"}, cancel |-> TRUE]}

Init ==
    /\ env \in Envs
    /\ store0 \in {"empty", "seeded"}
    /\ InitStore(store0)
    /\ metrics = << >>
    /\ now = 0
    /\ dirs = {}
    /\ tmpFiles = {}
    /\ projects = {}
    /\ ops = << >>
    /\ faults = 0
    /\ probeOK \in ProbeEnvs
    /\ calls = << >>
    /\ endpoints = << >>
    /\ reply = NoReply

Step(i) ==
    \/ StoreComposeFileSelect(i)
    \/ StoreComposeFileInsert(i)
    \/ CreateSession(i)
    \/ WriteComposeToTemp(i)
    \/ BringUp(i)
    \/ Sleep(i)
    \/ Prepare(i)
    \/ FinishK6(i)
    \/ Unwind(i)

Next ==
    \/ \E kind \in {"setup", "testapp", "quick"} : InvokeCompose(kind)
    \/ InvokeDiscover
    \/ InvokeRun
    \/ InvokeGenerate
    \/ InvokeCreateUITest
    \/ Tick
    \/ \E i \in 1..MaxOps : Cancel(i)
    \/ \E i \in 1..MaxOps : Step(i)

Spec == Init /\ [][Next]_vars

----------------------------------------------------------------------------
(* A sequential caller of StoreComposeFile *)

\* the sources the caller passes: a file path and a URL
CallerSources == Sources \cup {"./docker-compose.yml"}

InitCaller ==
    /\ env = [parallel |-> 1, faults |-> MaxFaults, contents |-> Contents, cancel |-> FALSE]
    /\ store0 \in {"empty", "seeded"}
    /\ InitStore(store0)
    /\ metrics = << >>
    /\ now = 0
    /\ dirs = {}
    /\ tmpFiles = {}
    /\ projects = {}
    /\ ops = << >>
    /\ faults = 0
    /\ probeOK = {}
    /\ calls = << >>
    /\ endpoints = << >>
    /\ reply = NoReply

\* one call StoreComposeFile(db, source, content), its result recorded
StoreComposeFileCall ==
    /\ Len(calls) < MaxCalls
    /\ \E source \in CallerSources, content \in Contents, ok \in Outcomes :
         LET r == StoreComposeFile(compose_files, source, content, ok) IN
         /\ Inject(r.id # 0)
         /\ compose_files' = r.table
         /\ calls' = Append(calls, [source |-> source, content |-> content,
                                    id |-> r.id,
                                    inserted |-> Len(r.table) - Len(compose_files)])
    /\ UNCHANGED <<test_sessions, services, api_specs, tests, test_runs, metrics,
                   now, dirs, tmpFiles, projects, ops, probeOK, store0, env,
                   endpoints, reply>>

NextCaller == StoreComposeFileCall

SpecCaller == InitCaller /\ [][NextCaller]_vars

----------------------------------------------------------------------------
(* analyze_results: a handler that only reads the tables metrics and         *)
(* endpoints.  A nullable numeric column holds << >> (NULL) or <<v>>.        *)

\* float64(slaTime): whole milliseconds as tenths of a millisecond
Float64(ms) == ms * 10

\* SELECT endpoint, avg_response_time, error_rate FROM metrics WHERE run_id = ?
RunMetrics(runId) == SelectSeq(metrics, LAMBDA m : m.run_id = runId)

\* QueryRow("SELECT sla_response_time, sla_error_rate FROM endpoints WHERE
\* path = ?").Scan(&slaTime, &slaError): the first row with the path; err is
\* sql.ErrNoRows without such a row and a conversion error when either column
\* of the row is NULL
SlaScan(endpoint) ==
    LET hits == SelectSeq(endpoints, LAMBDA e : e.path = endpoint) IN
    IF hits = << >> \/ hits[1].sla_response_time = << >> \/ hits[1].sla_error_rate = << >>
    THEN [err |-> TRUE, slaTime |-> 0, slaError |-> 0]
    ELSE [err |-> FALSE, slaTime |-> hits[1].sla_response_time[1],
          slaError |-> hits[1].sla_error_rate[1]]

\* the rows of SELECT AVG(avg_response_time), AVG(error_rate) FROM metrics WHERE
\* endpoint = ? AND run_id != ?
HistoricalSamples(endpoint, runId) ==
    SelectSeq(metrics, LAMBDA m : m.endpoint = endpoint /\ m.run_id # runId)

RECURSIVE SumResponseTime(_)
SumResponseTime(rows) ==
    IF rows = << >> THEN 0 ELSE Head(rows).avg_response_time + SumResponseTime(Tail(rows))

\* ((avgTime - histAvgTime) / histAvgTime) * 100 in float64 with histAvgTime =
\* sum / count, to whole percents: a division by 0.0 yields an infinity, or NaN
\* for 0.0 / 0.0, and does not panic
TimeDiff(avgTime, sum, count) ==
    IF sum = 0
    THEN [class |-> IF avgTime = 0 THEN "NaN" ELSE "+Inf", percent |-> 0]
    ELSE [class |-> "finite", percent |-> ((avgTime * count - sum) * 100) \div sum]

\* the line "- Response time: ...% vs historical average" of the report: AVG
\* over no rows is NULL, its Scan into a float64 fails and no line is written
HistoryLine(m, runId) ==
    LET hist == HistoricalSamples(m.endpoint, runId) IN
    IF hist = << >> THEN [line |-> "absent"]
    ELSE [line |-> "percent",
          diff |-> TimeDiff(m.avg_response_time, SumResponseTime(hist), Len(hist))]

\* the section of the report for one metrics row of the run
ReportSection(m, runId, compareHistory) ==
    LET sla == SlaScan(m.endpoint) IN
    [endpoint |-> m.endpoint,
     avgTime |-> m.avg_response_time,
     errorRate |-> m.error_rate,
     slaTimeViolation |-> ~sla.err /\ m.avg_response_time > Float64(sla.slaTime),
     slaErrorViolation |-> ~sla.err /\ m.error_rate > sla.slaError,
     history |-> IF compareHistory THEN HistoryLine(m, runId) ELSE [line |-> "absent"]]

\* analyze_results(runId, compareHistory): one section per metrics row of the
\* run under the heading, returned as text whatever the number of rows
AnalyzeResults ==
    /\ \E runId \in 1..(Len(test_runs) + 1), compareHistory \in BOOLEAN :
         LET rows == RunMetrics(runId) IN
         reply' = [tool |-> "analyze", runId |-> runId, compareHistory |-> compareHistory,
                   result |-> "ok",
                   report |-> [k \in 1..Len(rows) |->
                                 ReportSection(rows[k], runId, compareHistory)]]
    /\ UNCHANGED <<tables, now, dirs, tmpFiles, projects, ops, faults, probeOK, calls,
                   store0, env>>

MaxRuns == 2

MaxEndpoints == 2

\* the metrics rows a run can own in the model: the endpoint of
\* ParseAndStoreMetrics with response times of 0, 150.5, 500 and 600 ms and
\* error rates of 1% and 2%
SampleRows(rid) ==
    {[run_id |-> rid, endpoint |-> "/api/endpoint", avg_response_time |-> a,
      error_rate |-> e] : a \in {0, 1505, 5000, 6000}, e \in {100, 200}}

\* the tables metrics with at most one row per run for the runs 1..n
RECURSIVE MetricTables(_)
MetricTables(n) ==
    IF n = 0 THEN {<< >>}
    ELSE {t \o r : t \in MetricTables(n - 1),
                   r \in {<< >>} \cup {<<m>> : m \in SampleRows(n)}}

\* the rows of table endpoints in the model: SLAs of 500 ms and 1%, each
\* optional
EndpointRows ==
    {[path |-> p, method |-> "GET", sla_response_time |-> t, sla_error_rate |-> e] :
        p \in {"/api/endpoint", "/health"}, t \in {<< >>, <<500>>}, e \in {<< >>, <<100>>}}

\* The store analyze_results reads: the rows of an earlier test_application,
\* up to MaxRuns runs of its test with their metrics, and up to MaxEndpoints
\* endpoint rows
InitAnalyze ==
    /\ env = [parallel |-> 1, faults |-> 0, contents |-> {"web"}, cancel |-> FALSE]
    /\ store0 = "seeded"
    /\ compose_files = <<ComposeRow("./docker-compose.yml", "web")>>
    /\ test_sessions =
         <<DeferredSessionUpdate(SessionRow(1, SessionPrefix("testapp"),
                                            InitialStatus("testapp")))>>
    /\ services = <<ServiceRow(1, CHOOSE svc \in ComposeServices("web") : TRUE)>>
    /\ api_specs = <<[session_id |-> 1, spec_url |-> SpecURL(<<"8080">>, "/openapi.json")]>>
    /\ tests = <<AutoTestRow(1)>>
    /\ \E n \in 0..MaxRuns :
         /\ test_runs = [k \in 1..n |-> CompleteRun(RunRow(1, 10), "run")]
         /\ metrics \in MetricTables(n)
    /\ endpoints \in UNION {[1..n -> EndpointRows] : n \in 0..MaxEndpoints}
    /\ now = 0
    /\ dirs = {}
    /\ tmpFiles = {}
    /\ projects = {}
    /\ ops = << >>
    /\ faults = 0
    /\ probeOK = {}
    /\ calls = << >>
    /\ reply = NoReply

NextAnalyze == AnalyzeResults

SpecAnalyze == InitAnalyze /\ [][NextAnalyze]_vars

----------------------------------------------------------------------------
(* The discovery engine of discover_api_specs, lines 88-152 of its handler,  *)
(* applied to a session with its arguments: discover(session, specPaths,     *)
(* autoDiscover)                                                             *)

\* the specPaths arguments of the model: none, one path, two paths separated by
\* a comma and a blank, and white space only
SpecPathsArgs ==
    {<< >>,
     <<"/custom.json">>,
     <<"/a.json", ",", " ", "/b.yaml">>,
     <<" ">>}

\* the stub HTTP layers of the engine: any set of these URLs answers 200
DiscoveryProbes ==
    SUBSET {SpecURL(<<"8080">>, "/swagger.json"), SpecURL(<<"8080">>, "/api/openapi.json"),
            SpecURL(<<"3000">>, "/openapi.json"), SpecURL(<<"3000">>, "/v3/api-docs")}

\* the api_specs rows of the seeded store
SeededSpecs(s0) ==
    IF s0 = "empty" THEN << >>
    ELSE <<[session_id |-> 1, spec_url |-> SpecURL(<<"8080">>, "/openapi.json")]>>

\* The store the engine reads: session 1 of a compose file with its service
\* rows in an order the setup loop can have stored them, over api_specs that
\* is empty or holds the row of an earlier discovery
InitDiscovery ==
    /\ env = [parallel |-> 1, faults |-> MaxFaults, contents |-> {"web", "two"},
              cancel |-> FALSE]
    /\ store0 \in {"empty", "seeded"}
    /\ \E content \in env.contents :
         /\ compose_files = <<ComposeRow("./docker-compose.yml", content)>>
         /\ \E seq \in Orders(ComposeServices(content)) :
              services = ServiceRows(1, seq, 1, 0)
    /\ test_sessions = <<SessionRow(1, SessionPrefix("setup"), InitialStatus("setup"))>>
    /\ api_specs = SeededSpecs(store0)
    /\ tests = << >>
    /\ test_runs = << >>
    /\ metrics = << >>
    /\ endpoints = << >>
    /\ now = 0
    /\ dirs = {}
    /\ tmpFiles = {}
    /\ projects = {}
    /\ ops = << >>
    /\ faults = 0
    /\ probeOK \in DiscoveryProbes
    /\ calls = << >>
    /\ reply = NoReply

\* one application of the engine to session 1: the list is built, then every
\* entry is written to the result and inserted; a failed INSERT (at position
\* bad) is logged and the loop goes on
DiscoverSpecs ==
    /\ reply.tool = "none"
    /\ \E specPaths \in SpecPathsArgs, autoDiscover \in BOOLEAN :
         LET sid == 1
             discovered == DiscoveredSpecs(specPaths, autoDiscover, SessionServices(sid)) IN
         \E bad \in 0..Len(discovered) :
           /\ bad # 0 => MayFail
           /\ Inject(bad = 0)
           /\ api_specs' = api_specs \o SpecRows(sid, discovered, 1, bad)
           /\ reply' = [tool |-> "discover", specPaths |-> specPaths,
                        autoDiscover |-> autoDiscover, result |-> "ok",
                        explicit |-> Len(ExplicitSpecs(specPaths)),
                        discovered |-> discovered, logged |-> bad]
    /\ UNCHANGED <<compose_files, test_sessions, services, tests, test_runs, metrics,
                   endpoints, now, dirs, tmpFiles, projects, ops, probeOK, calls, store0,
                   env>>

NextDiscovery == DiscoverSpecs

SpecDiscovery == InitDiscovery /\ [][NextDiscovery]_vars

----------------------------------------------------------------------------
(* generate_api_tests and its script *)

\* request.GetString(key, default): the argument when the caller passed one
GetString(arg, default) == IF arg = << >> THEN default ELSE arg[1]

\* GetExecutorType matching the test type without regard to case
GetExecutorTypeFolded(testType) ==
    CASE testType \in {"stress", "Stress"} -> "ramping-vus"
      [] testType \in {"spike", "Spike"} -> "ramping-arrival-rate"
      [] OTHER -> "constant-vus"

\* GetExecutorType: the switch on the test type
GetExecutorType(testType) ==
    CASE testType = "stress" -> "ramping-vus"
      [] testType = "spike" -> "ramping-arrival-rate"
      [] OTHER -> "constant-vus"

\* one entry of a stages list
Stage(duration, target) == [duration |-> duration, target |-> target]

\* GetScenarioConfig: the keys of the scenario block; a key the block does not
\* hold is << >>
GetScenarioConfig(testType) ==
    CASE testType = "stress" ->
           [startRate |-> << >>, timeUnit |-> << >>, vus |-> << >>, duration |-> << >>,
            stages |-> <<Stage("2m", 100), Stage("5m", 100), Stage("2m", 0)>>]
      [] testType = "spike" ->
           [startRate |-> <<10>>, timeUnit |-> <<"1s">>, vus |-> << >>, duration |-> << >>,
            stages |-> <<Stage("30s", 10), Stage("10s", 100), Stage("30s", 10)>>]
      [] OTHER ->
           [startRate |-> << >>, timeUnit |-> << >>, vus |-> <<10>>, duration |-> <<"30s">>,
            stages |-> << >>]

\* generateK6APITest: the scenario named after the test type, its executor
\* and its configuration
generateK6APITest(testType) ==
    [scenario |-> testType, executor |-> GetExecutorType(testType),
     config |-> GetScenarioConfig(testType)]

\* the row of generate_api_tests' INSERT INTO tests with its script column
ApiTestRowWithScript(sid, testType) ==
    [session_id |-> sid, name |-> "api-test", type |-> testType,
     script |-> generateK6APITest(testType)]

MaxTests == 3

\* the testType argument of a call: absent, or any string
TestTypeArgs == {<< >>, <<"load">>, <<"stress">>, <<"spike">>, <<"soak">>, <<"Stress">>}

\* the store generate_api_tests reads: one session with one discovered spec
InitGenerate ==
    /\ env = [parallel |-> 1, faults |-> MaxFaults, contents |-> {"web"}, cancel |-> FALSE]
    /\ store0 = "seeded"
    /\ compose_files = <<ComposeRow("./docker-compose.yml", "web")>>
    /\ test_sessions = <<SessionRow(1, SessionPrefix("setup"), InitialStatus("setup"))>>
    /\ \E seq \in Orders(ComposeServices("web")) : services = ServiceRows(1, seq, 1, 0)
    /\ api_specs = SeededSpecs(store0)
    /\ tests = << >>
    /\ test_runs = << >>
    /\ metrics = << >>
    /\ endpoints = << >>
    /\ now = 0
    /\ dirs = {}
    /\ tmpFiles = {}
    /\ projects = {}
    /\ ops = << >>
    /\ faults = 0
    /\ probeOK = {}
    /\ calls = << >>
    /\ reply = NoReply

\* generate_api_tests: the spec is looked up, the script is generated from
\* the test type, the row is inserted; a failed INSERT is returned
GenerateAPITests ==
    /\ Len(tests) < MaxTests
    /\ \E specId \in 1..(Len(api_specs) + 1), arg \in TestTypeArgs, ok \in Outcomes :
         LET testType == GetString(arg, "load") IN
         IF specId > Len(api_specs)
         THEN /\ reply' = [tool |-> "generate_api_tests", specId |-> specId, arg |-> arg,
                           result |-> "error", testId |-> 0]
              /\ UNCHANGED <<tests, faults>>
         ELSE /\ Inject(ok)
              /\ tests' = IF ok
                          THEN Append(tests, ApiTestRowWithScript(api_specs[specId].session_id,
                                                                  testType))
                          ELSE tests
              /\ reply' = [tool |-> "generate_api_tests", specId |-> specId, arg |-> arg,
                           result |-> IF ok THEN "ok" ELSE "error",
                           testId |-> IF ok THEN Len(tests) + 1 ELSE 0]
    /\ UNCHANGED <<compose_files, test_sessions, services, api_specs, test_runs, metrics,
                   endpoints, now, dirs, tmpFiles, projects, ops, probeOK, calls, store0,
                   env>>

NextGenerate == GenerateAPITests

SpecGenerate == InitGenerate /\ [][NextGenerate]_vars

----------------------------------------------------------------------------
(* create_ui_test's script: ParseUIInstructions and generateK6UITest *)

\* A text is the sequence of its characters.
Click == <<"c", "l", "i", "c", "k">>
Button == <<"b", "u", "t", "t", "o", "n">>
Type == <<"t", "y", "p", "e">>
Enter == <<"e", "n", "t", "e", "r">>
Wait == <<"w", "a", "i", "t">>

\* the words instruction texts are made of
Spelling(word) ==
    CASE word = "Click" -> <<"C", "l", "i", "c", "k">>
      [] word = "button" -> Button
      [] word = "type" -> Type
      [] word = "center" -> <<"c">> \o Enter
      [] word = "WAIT" -> <<"W", "A", "I", "T">>
      [] word = "scroll" -> <<"s", "c", "r", "o", "l", "l">>

Words == {"Click", "button", "type", "center", "WAIT", "scroll"}

MaxWords == 3

\* the text of a sequence of words, a space between two words
RECURSIVE Text(_)
Text(words) ==
    IF words = << >> THEN << >>
    ELSE IF Len(words) = 1 THEN Spelling(words[1])
    ELSE Spelling(words[1]) \o <<" ">> \o Text(Tail(words))

\* unicode.ToLower of one character
LowerOf(c) ==
    CASE c = "C" -> "c"
      [] c = "W" -> "w"
      [] c = "A" -> "a"
      [] c = "I" -> "i"
      [] c = "T" -> "t"
      [] OTHER -> c

\* strings.ToLower
ToLower(text) == [k \in 1..Len(text) |-> LowerOf(text[k])]

\* strings.Contains
Contains(text, substr) ==
    \E k \in 1..(Len(text) - Len(substr) + 1) :
        SubSeq(text, k, k + Len(substr) - 1) = substr

\* the statements a script is made of
ClickAction == [call |-> "locator.click", arg |-> "button"]
TypeAction == [call |-> "locator.type", arg |-> "input"]
WaitAction == [call |-> "waitForTimeout", arg |-> "1000"]
Goto(url) == [call |-> "goto", arg |-> url]
PageClose == [call |-> "close", arg |-> ""]

\* ParseUIInstructions searching the text as the caller wrote it
ParseUIInstructionsCaseSensitive(instructions) ==
    LET text == instructions IN
    (IF Contains(text, Click) /\ Contains(text, Button) THEN <<ClickAction>> ELSE << >>)
    \o (IF Contains(text, Type) \/ Contains(text, Enter) THEN <<TypeAction>> ELSE << >>)
    \o (IF Contains(text, Wait) THEN <<WaitAction>> ELSE << >>)

\* ParseUIInstructions: the text is lowered, then the three tests append
\* their action in the order of the code
ParseUIInstructions(instructions) ==
    LET text == ToLower(instructions) IN
    (IF Contains(text, Click) /\ Contains(text, Button) THEN <<ClickAction>> ELSE << >>)
    \o (IF Contains(text, Type) \/ Contains(text, Enter) THEN <<TypeAction>> ELSE << >>)
    \o (IF Contains(text, Wait) THEN <<WaitAction>> ELSE << >>)

\* generateK6UITest: the statements of the script's function in their order
generateK6UITest(url, instructions) ==
    <<Goto(url)>> \o ParseUIInstructions(instructions) \o <<PageClose>>

URLs == {"http://localhost:3000"}

\* the instruction texts of a call: up to MaxWords words
InstructionWords == UNION {[1..n -> Words] : n \in 0..MaxWords}

\* a request of create_ui_test has arrived
InitUIScript ==
    /\ env = [parallel |-> 1, faults |-> 0, contents |-> {"web"}, cancel |-> FALSE]
    /\ store0 = "empty"
    /\ InitStore(store0)
    /\ metrics = << >>
    /\ endpoints = << >>
    /\ now = 0
    /\ dirs = {}
    /\ tmpFiles = {}
    /\ projects = {}
    /\ ops = << >>
    /\ faults = 0
    /\ probeOK = {}
    /\ calls = << >>
    /\ \E url \in URLs, words \in InstructionWords :
         reply = [tool |-> "request", url |-> url, words |-> words,
                  instructions |-> Text(words), script |-> << >>]

\* the script of the request is generated
GenerateUIScript ==
    /\ reply.tool = "request"
    /\ reply' = [reply EXCEPT !.tool = "create_ui_test",
                              !.script = generateK6UITest(reply.url, reply.instructions)]
    /\ UNCHANGED <<tables, now, dirs, tmpFiles, projects, ops, faults, probeOK, calls,
                   store0, env>>

NextUIScript == GenerateUIScript

SpecUIScript == InitUIScript /\ [][NextUIScript]_vars

----------------------------------------------------------------------------
(* Properties *)

OpIds == 1..Len(ops)

\* the operation has returned and its deferred calls have run
Returned(o) == o.pc = "done"

\* the operation is between its dispatch and its return
Running(o) == o.pc # "done"

\* C1: every successful bring-up of an operation is followed, before the
\* operation returns, by exactly one tear-down with the same compose file and
\* project name, whether the operation returns normally, with an error or
\* panics: at no time are there more tear-downs than bring-ups, a pending
\* bring-up always has its tear-down registered, and at the return the
\* tear-downs are exactly the bring-ups.
C1_CleanupInvariant ==
    \A i \in OpIds :
        LET o == ops[i] IN
        /\ Len(o.downs) <= Len(o.ups)
        /\ \A k \in 1..Len(o.downs) : o.downs[k] = o.ups[k]
        /\ Len(o.downs) < Len(o.ups) =>
               /\ Running(o)
               /\ \E k \in 1..Len(o.defers) : o.defers[k] = "down"
        /\ Returned(o) => o.downs = o.ups

\* C1 witness: a handler that panicked after its bring-up has returned with
\* its one tear-down done
C1_PanicAfterBringUpTornDown ==
    \E i \in OpIds :
        /\ Returned(ops[i])
        /\ ops[i].result = "panic"
        /\ Len(ops[i].ups) = 1
        /\ ops[i].downs = ops[i].ups

\* C2: in every operation that materialized a working directory, the directory
\* is removed only after the tear-down of every runtime the operation brought
\* up, and it has been removed when the operation has returned, also when
\* bring-up failed.
C2_TearDownBeforeRemoval ==
    \A i \in OpIds :
        LET o == ops[i] IN
        /\ o.removed => o.downs = o.ups
        /\ (Returned(o) /\ o.composePath # << >>) => o.removed
        /\ o.removed => o.composePath # << >>

\* C2 witness: an operation whose k6 run failed after its bring-up has
\* returned, torn down and with its directory removed
C2_RemovedAfterTearDown ==
    \E i \in OpIds :
        /\ Returned(ops[i])
        /\ ops[i].result = "error"
        /\ ops[i].k6 = "fail"
        /\ Len(ops[i].downs) = 1
        /\ ops[i].removed

\* C3: two operations in flight at the same time on the same session have
\* different working directories and different docker compose project names.
C3_DistinctNames ==
    \A i, j \in OpIds :
        (/\ i # j
         /\ Running(ops[i]) /\ Running(ops[j])
         /\ ops[i].sid # 0 /\ ops[i].sid = ops[j].sid)
        => /\ (ops[i].composePath # << >> /\ ops[j].composePath # << >>)
                  => ops[i].composePath # ops[j].composePath
           /\ (ops[i].projectName # << >> /\ ops[j].projectName # << >>)
                  => ops[i].projectName # ops[j].projectName

\* C4 as stated: when test_application runs the load tool, the runtime that
\* discovery used has been torn down and a second bring-up has happened.
C4_SeparateBrackets ==
    \A i \in OpIds :
        (ops[i].kind = "testapp" /\ ops[i].pc = "k6")
        => /\ Len(ops[i].ups) = 2
           /\ Len(ops[i].downs) = 1

\* C4 amended: test_application has one bring-up/tear-down bracket shared by
\* discovery and test execution: there is at most one bring-up; while the
\* script is prepared and the load tool runs, the runtime discovery used has
\* not been torn down; the tear-down happens only once the handler is
\* returning, and exactly once.
C4_SharedBracket ==
    \A i \in OpIds :
        LET o == ops[i] IN
        o.kind = "testapp" =>
            /\ Len(o.ups) <= 1
            /\ o.pc \in {"sleep", "prepare", "k6"} => (Len(o.ups) = 1 /\ o.downs = << >>)
            /\ o.downs # << >> => o.pc \in {"unwind", "done"}
            /\ Returned(o) => Len(o.downs) = Len(o.ups)

\* C4 witness: test_application runs the load tool with the specs of its
\* discovery stored, on its first and only bring-up
C4_LoadToolOnDiscoveryRuntime ==
    \E i \in OpIds :
        /\ ops[i].kind = "testapp"
        /\ ops[i].pc = "k6"
        /\ \E k \in 1..Len(api_specs) : api_specs[k].session_id = ops[i].sid
        /\ Len(ops[i].ups) = 1
        /\ ops[i].downs = << >>

\* C5: a test_application whose bring-up failed or whose load tool exited
\* non-zero leaves its session with status failed.
C5_FailureMarksFailed ==
    \A i \in OpIds :
        LET o == ops[i] IN
        (/\ o.kind = "testapp"
         /\ Returned(o)
         /\ o.sid # 0
         /\ \/ o.k6 = "fail"
            \/ o.composePath # << >> /\ o.ups = << >>)
        => test_sessions[o.sid].status = "failed"

\* the position of a status on initialized -> running -> {completed, failed}
StatusRank(status) ==
    CASE status = "initialized" -> 0
      [] status = "running" -> 1
      [] OTHER -> 2

Terminal(status) == status \in {"completed", "failed"}

\* completed_at is null exactly while the status is initialized or running,
\* and a terminal row has had its completed_at written once
SessionRowsConsistent ==
    \A k \in 1..Len(test_sessions) :
        LET row == test_sessions[k] IN
        /\ row.status \in {"initialized", "running", "completed", "failed"}
        /\ Terminal(row.status) <=> row.completed_at # NULL
        /\ row.completed_writes = IF Terminal(row.status) THEN 1 ELSE 0

\* a step never moves a status backward or out of a terminal status, and it
\* writes completed_at exactly when it makes the status terminal
SessionRowsForward ==
    /\ Len(test_sessions') >= Len(test_sessions)
    /\ \A k \in 1..Len(test_sessions) :
          LET old == test_sessions[k]
              new == test_sessions'[k] IN
          /\ StatusRank(new.status) >= StatusRank(old.status)
          /\ Terminal(old.status) => new = old
          /\ new.completed_writes # old.completed_writes
                <=> (~Terminal(old.status) /\ Terminal(new.status))

\* C6: for every session row, over every interleaving, the status only moves
\* forward along initialized -> running -> {completed, failed}, completed_at
\* is written exactly once, with the step that makes the status terminal, and
\* it is null while the status is initialized or running.
C6_SessionLifecycle == []SessionRowsConsistent /\ [][SessionRowsForward]_vars

\* C6 witness: a test_application has returned and the session it created as
\* running is completed, its completed_at written once
C6_SessionCompletedOnce ==
    \E i \in OpIds :
        /\ ops[i].kind = "testapp"
        /\ Returned(ops[i])
        /\ ops[i].sid # 0
        /\ ops[i].sid > (IF store0 = "empty" THEN 0 ELSE 1)
        /\ test_sessions[ops[i].sid].status = "completed"
        /\ test_sessions[ops[i].sid].completed_at = CURRENT_TIMESTAMP
        /\ test_sessions[ops[i].sid].completed_writes = 1

\* C7: once an operation whose load tool succeeded has returned successfully,
\* the status of its session is completed.
C7_HappyPathCompleted ==
    \A i \in OpIds :
        LET o == ops[i] IN
        (Returned(o) /\ o.result = "ok" /\ o.k6 = "ok" /\ o.sid # 0)
        => test_sessions[o.sid].status = "completed"

\* the end-to-end scenario: the store was empty, the one request was a
\* test_application of the compose file with the single service web on
\* 8080:8080 with testType quick, only /openapi.json answers 200, bring-up and
\* the load tool succeeded, nothing failed, and the handler has returned
EndToEndScenario ==
    /\ store0 = "empty"
    /\ probeOK = {SpecURL(<<"8080">>, "/openapi.json")}
    /\ Len(ops) = 1
    /\ ops[1].kind = "testapp"
    /\ ops[1].content = "web"
    /\ ops[1].testType = "quick"
    /\ Returned(ops[1])
    /\ ops[1].result = "ok"
    /\ Len(ops[1].ups) = 1
    /\ ops[1].k6 = "ok"
    /\ ~ops[1].fault

\* C8: the end-to-end scenario leaves exactly one compose file, one session
\* with status completed, one service named web, one API spec whose URL ends
\* in /openapi.json, one generated test of type load and one test run with a
\* non-null completed_at.
C8_EndToEnd ==
    EndToEndScenario =>
        /\ Len(compose_files) = 1
        /\ Len(test_sessions) = 1
        /\ test_sessions[1].status = "completed"
        /\ Len(services) = 1
        /\ services[1].name = "web"
        /\ Len(api_specs) = 1
        /\ api_specs[1].spec_url[Len(api_specs[1].spec_url)] = "/openapi.json"
        /\ Len(tests) = 1
        /\ tests[1].type = "load"
        /\ Len(test_runs) = 1
        /\ test_runs[1].completed_at # NULL

\* C8 witness: the end-to-end scenario has run to its end, the run stored with
\* the 10 virtual users of testType quick
C8_EndToEndRan ==
    /\ EndToEndScenario
    /\ Len(test_runs) = 1
    /\ test_runs[1].vus = TestVus("quick")

\* the rows of compose_files holding the content
RowsOfContent(content) ==
    {k \in 1..Len(compose_files) : compose_files[k].hash = Md5Hex(content)}

C10_NoDuplicateHash ==
    /\ \A a, b \in 1..Len(compose_files) :
          a # b => compose_files[a].hash # compose_files[b].hash
    /\ \A i, j \in OpIds :
          (/\ ops[i].cfid # 0 /\ ops[j].cfid # 0
           /\ ops[i].content = ops[j].content)
          => ops[i].cfid = ops[j].cfid

\* C11: persistence is ordered within a session's pipeline: rows are never
\* removed, and at every moment each session row names a stored compose file,
\* each service, spec and test row names a stored session, and each run row
\* names a stored test; so the parent row was created before the child row.
\* A handler likewise holds a session id only with a compose file id, and a
\* run id only with a test id.
C11_PersistenceOrdering ==
    /\ \A k \in 1..Len(test_sessions) :
          test_sessions[k].compose_file_id \in 1..Len(compose_files)
    /\ \A k \in 1..Len(services) : services[k].session_id \in 1..Len(test_sessions)
    /\ \A k \in 1..Len(api_specs) : api_specs[k].session_id \in 1..Len(test_sessions)
    /\ \A k \in 1..Len(tests) : tests[k].session_id \in 1..Len(test_sessions)
    /\ \A k \in 1..Len(test_runs) : test_runs[k].test_id \in 1..Len(tests)
    /\ \A i \in OpIds :
          /\ ops[i].sid # 0 => ops[i].sid \in 1..Len(test_sessions)
          /\ (ops[i].sid # 0 /\ ops[i].kind \in {"setup", "testapp", "quick"})
                => ops[i].cfid \in 1..Len(compose_files)
          /\ ops[i].rid # 0 => (ops[i].rid \in 1..Len(test_runs)
                                /\ test_runs[ops[i].rid].test_id = ops[i].tid)

\* C11 witness: on a store that was empty, test_application has stored its
\* compose file, session, service, spec, test and run rows, in that chain
C11_FullChainStored ==
    \E i \in OpIds :
        /\ store0 = "empty"
        /\ ops[i].kind = "testapp"
        /\ ops[i].pc = "k6"
        /\ test_runs[ops[i].rid].test_id = ops[i].tid
        /\ tests[ops[i].tid].session_id = ops[i].sid
        /\ test_sessions[ops[i].sid].compose_file_id = ops[i].cfid
        /\ \E k \in 1..Len(services) : services[k].session_id = ops[i].sid
        /\ \E k \in 1..Len(api_specs) : api_specs[k].session_id = ops[i].sid

\* C12: when the load tool of a run-recording operation (run_performance_test,
\* test_application) has exited non-zero and the operation has returned, its
\* result is an error, its run row has null completed_at and null results,
\* and no metric row names the run.
C12_FailedRunLeftIncomplete ==
    \A i \in OpIds :
        LET o == ops[i] IN
        (o.kind \in {"run", "testapp"} /\ Returned(o) /\ o.k6 = "fail")
        => /\ o.result = "error"
           /\ test_runs[o.rid].completed_at = NULL
           /\ test_runs[o.rid].results = NULL
           /\ \A k \in 1..Len(metrics) : metrics[k].run_id # o.rid

\* C13: in run_performance_test and test_application, whenever the load tool
\* is running there is a run row for it, naming its test, with null
\* completed_at and null results; and the completed_at or results of a
\* handler's run row are written only once its load tool has exited.
C13_RunRowBracketsLoadTool ==
    \A i \in OpIds :
        LET o == ops[i] IN
        o.kind \in {"run", "testapp"} =>
            /\ o.pc = "k6" =>
                  /\ o.rid \in 1..Len(test_runs)
                  /\ test_runs[o.rid].test_id = o.tid
                  /\ test_runs[o.rid].completed_at = NULL
                  /\ test_runs[o.rid].results = NULL
            /\ (o.rid # 0 /\ o.k6 = "none") =>
                  /\ test_runs[o.rid].completed_at = NULL
                  /\ test_runs[o.rid].results = NULL
                  /\ test_runs[o.rid].completed_writes = 0

\* C13 witness: run_performance_test is running the load tool and its run row
\* is stored, not completed
C13_RunRowWhileLoadToolRuns ==
    \E i \in OpIds :
        /\ ops[i].kind = "run"
        /\ ops[i].pc = "k6"
        /\ ops[i].rid = Len(test_runs)
        /\ test_runs[ops[i].rid].completed_at = NULL

\* the primary records: session, test and run rows
PrimaryRecords == {"session", "tests", "runs"}

\* C14: an operation in which the INSERT of a session, test or run row failed
\* returns an error result of its handler to the caller, and its load tool
\* was never executed.
C14_PrimaryFailureReported ==
    \A i \in OpIds :
        LET o == ops[i] IN
        (Returned(o) /\ o.failed \cap PrimaryRecords # {})
        => /\ Reported(o.result) = "tool_error"
           /\ o.k6 = "none"

\* the operation attempted its bring-up and the bring-up failed
BringUpFailed(o) == o.projectName # << >> /\ o.ups = << >>

\* C15: an operation whose bring-up failed has, when it has returned, an
\* error result, no run row and no load-tool execution, and it has invoked a
\* tear-down of the project it tried to bring up.
C15_FailedBringUpTornDown ==
    \A i \in OpIds :
        LET o == ops[i] IN
        (Returned(o) /\ BringUpFailed(o))
        => /\ o.result = "error"
           /\ o.rid = 0
           /\ o.k6 = "none"
           /\ \E k \in 1..Len(o.downs) : o.downs[k] = <<o.composePath, o.projectName>>

\* C16: a failed tear-down is recorded: an operation whose compose-down
\* command failed has a failure entry in the stop log, and it still has the
\* result it was returning with.
C16_TearDownFailureLogged ==
    \A i \in OpIds :
        LET o == ops[i] IN
        o.stopFailed =>
            /\ \E k \in 1..Len(o.stopLog) : o.stopLog[k] = "fail"
            /\ o.result # "none"

\* the positions of a handler between its successful bring-up and its return
AfterBringUp == {"sleep", "prepare", "k6", "unwind"}

\* C17: when the request is cancelled after a successful bring-up, during the
\* settle wait and probing, the preparation or the load-tool run, the
\* tear-down stays registered until it has run, and when the operation has
\* returned every bring-up has had its tear-down: the cancellation does not
\* abort it.
C17_CancellationKeepsTearDown ==
    \A i \in OpIds :
        LET o == ops[i] IN
        (o.cancelled \in AfterBringUp /\ o.ups # << >>)
        => /\ Returned(o) => o.downs = o.ups
           /\ Running(o) =>
                 \/ o.downs = o.ups
                 \/ \E k \in 1..Len(o.defers) : o.defers[k] = "down"

\* C17 witness: a request cancelled while its load tool ran has returned with
\* an error, the load tool killed and the runtime torn down
C17_CancelledDuringLoadTool ==
    \E i \in OpIds :
        /\ Returned(ops[i])
        /\ ops[i].cancelled = "k6"
        /\ ops[i].k6 = "fail"
        /\ ops[i].result = "error"
        /\ Len(ops[i].ups) = 1
        /\ ops[i].downs = ops[i].ups

\* C18: once every operation has returned, whether it succeeded or failed at
\* any step, no temporary directory and no temporary file (compose working
\* directory, k6 script file, k6 JSON result file) remains on disk.
C18_NoTempLeftBehind ==
    (ops # << >> /\ \A i \in OpIds : Returned(ops[i]))
    => /\ dirs = {}
       /\ tmpFiles = {}

\* the operations that accept a compose source
ComposeKinds == {"setup", "testapp", "quick"}

\* C19: an operation that fetched compose content which does not parse never
\* creates a session row and never brings a runtime up, and returns an error.
C19_InvalidComposeRejected ==
    \A i \in OpIds :
        LET o == ops[i] IN
        (o.kind \in ComposeKinds /\ o.content # "" /\ ~YamlValid(o.content))
        => /\ o.sid = 0
           /\ o.projectName = << >>
           /\ Returned(o) => o.result = "error"

\* an operation whose fetch of the compose source failed stays as it
\* returned: an error result, nothing stored and nothing brought up
FetchFailureAborts ==
    \A i \in OpIds :
        "fetch" \in ops[i].failed
        => /\ Returned(ops[i])
           /\ ops[i].result = "error"
           /\ ops[i].cfid = 0
           /\ ops[i].sid = 0
           /\ ops[i].composePath = << >>
           /\ ops[i].projectName = << >>

\* the step in which a fetch fails changes no table, directory or project
FetchFailureStoresNothing ==
    (Len(ops') > Len(ops) /\ "fetch" \in ops'[Len(ops')].failed)
    => /\ UNCHANGED tables
       /\ UNCHANGED <<dirs, tmpFiles, projects>>

\* C20: when resolving the compose source fails, the operation returns an
\* error result and the store is unchanged: no compose file, session or
\* service row is created and no runtime is brought up.
C20_FetchFailureLeavesStore == []FetchFailureAborts /\ [][FetchFailureStoresNothing]_vars

\* C20 witness: on a store that holds rows, a test_application whose fetch
\* failed has returned its error and the store holds what it held
C20_FetchFailedOnSeededStore ==
    \E i \in OpIds :
        /\ ops[i].kind = "testapp"
        /\ "fetch" \in ops[i].failed
        /\ Returned(ops[i])
        /\ store0 = "seeded"
        /\ Len(ops) = 1
        /\ Len(compose_files) = 1 /\ Len(test_sessions) = 1 /\ Len(services) = 1

\* a run_performance_test whose testId, or a generate_api_tests whose specId,
\* named no row when the handler looked it up
LookupFailed(o) ==
    \/ o.kind = "run" /\ o.tid = 0
    \/ o.kind = "generate" /\ o.sid = 0

\* an operation whose lookup failed has returned an error result and holds no
\* run row, working directory or runtime
LookupFailureAborts ==
    \A i \in OpIds :
        LookupFailed(ops[i])
        => /\ Returned(ops[i])
           /\ Reported(ops[i].result) = "tool_error"
           /\ ops[i].rid = 0
           /\ ops[i].composePath = << >>
           /\ ops[i].projectName = << >>
           /\ ops[i].ups = << >>

\* the step in which a lookup fails changes no table, directory, file or project
LookupFailureStoresNothing ==
    (Len(ops') > Len(ops) /\ LookupFailed(ops'[Len(ops')]))
    => /\ UNCHANGED tables
       /\ UNCHANGED <<dirs, tmpFiles, projects>>

\* C21: run_performance_test with a testId that names no test, and
\* generate_api_tests with a specId that names no spec, return a not-found
\* error at once, and no row is written, no working directory is created and
\* no runtime is brought up.
C21_UnknownIdNoSideEffects ==
    []LookupFailureAborts /\ [][LookupFailureStoresNothing]_vars

\* C21 witness: on a store that holds a test and a spec, both a
\* run_performance_test and a generate_api_tests were called with an id one past
\* the last row and have returned
C21_BothLookupsFailed ==
    /\ Len(ops) = 2
    /\ ops[1].kind = "run" /\ LookupFailed(ops[1]) /\ Returned(ops[1])
    /\ ops[2].kind = "generate" /\ LookupFailed(ops[2]) /\ Returned(ops[2])
    /\ ops[1].testArg = Len(tests) + 1
    /\ ops[2].testArg = Len(api_specs) + 1
    /\ tests # << >> /\ api_specs # << >>

\* C22: analyze_results called with a runId that names no run returns a
\* not-found error and no report.
C22_UnknownRunReported ==
    (reply.tool = "analyze" /\ reply.runId \notin 1..Len(test_runs))
    => reply.result = "error"

\* the endpoint rows that carry the path
EndpointRecords(path) == {k \in 1..Len(endpoints) : endpoints[k].path = path}

\* C25: in the report of analyze_results a response-time violation is flagged
\* exactly for the samples with an endpoint record of their path whose
\* sla_response_time they exceed, and an error-rate violation exactly for those
\* with an endpoint record of their path whose sla_error_rate they exceed.
C25_SlaViolationsFlagged ==
    reply.tool = "analyze"
    => \A k \in 1..Len(reply.report) :
          LET sec == reply.report[k] IN
          /\ sec.slaTimeViolation
             <=> \E j \in EndpointRecords(sec.endpoint) :
                    /\ endpoints[j].sla_response_time # << >>
                    /\ sec.avgTime > Float64(endpoints[j].sla_response_time[1])
          /\ sec.slaErrorViolation
             <=> \E j \in EndpointRecords(sec.endpoint) :
                    /\ endpoints[j].sla_error_rate # << >>
                    /\ sec.errorRate > endpoints[j].sla_error_rate[1]

\* C26: with compareHistory the report says "no historical data" for every
\* endpoint of the run that no other run sampled or whose historical mean is
\* zero, and gives a finite percentage for the others.
C26_NoHistoryReported ==
    (reply.tool = "analyze" /\ reply.compareHistory)
    => \A k \in 1..Len(reply.report) :
          LET sec == reply.report[k]
              hist == HistoricalSamples(sec.endpoint, reply.runId) IN
          IF hist = << >> \/ SumResponseTime(hist) = 0
          THEN sec.history.line = "no historical data"
          ELSE sec.history.line = "percent" /\ sec.history.diff.class = "finite"

\* a session row was in the store when operation i arrived: the store started
\* with one, or an earlier operation of a client that sends one request at a
\* time had created or found one
SessionExistedAtArrival(i) ==
    \/ store0 = "seeded"
    \/ env.parallel = 1 /\ \E j \in 1..(i - 1) : ops[j].sid # 0

\* C23: a discover_api_specs or create_ui_test that arrives while a session
\* exists selects a stored session and works on it, and does not return the
\* "no environment" or "no active session" error.
C23_MostRecentSessionSelected ==
    \A i \in OpIds :
        (ops[i].kind \in {"discover", "uitest"} /\ SessionExistedAtArrival(i))
        => /\ ops[i].sid \in 1..Len(test_sessions)
           /\ ~(Returned(ops[i]) /\ ops[i].result = "error" /\ ops[i].failed = {})

\* the entries of a reply of the discovery engine that follow the entries of
\* specPaths
AutoPart == SubSeq(reply.discovered, reply.explicit + 1, Len(reply.discovered))

\* the first host port of service row k
PortOf(k) == FirstHostPort(services[k].ports)

\* every pair of a service row of the session and a position of the
\* conventional path list: service order first, path order within a service
ProbePairs(sid) ==
    LET rows == SelectSeq([k \in 1..Len(services) |-> k],
                          LAMBDA k : services[k].session_id = sid)
        P == Len(DiscoverCommonPaths) IN
    [n \in 1..(Len(rows) * P) |-> <<rows[((n - 1) \div P) + 1], ((n - 1) % P) + 1>>]

\* the URLs of the pairs whose service has a first port mapping and whose URL
\* answers 200, in the order of the pairs
ExpectedAuto(sid) ==
    LET hits == SelectSeq(ProbePairs(sid),
                          LAMBDA pr : /\ PortOf(pr[1]) # << >>
                                      /\ SpecURL(PortOf(pr[1]), DiscoverCommonPaths[pr[2]])
                                            \in probeOK) IN
    [n \in 1..Len(hits) |-> SpecURL(PortOf(hits[n][1]), DiscoverCommonPaths[hits[n][2]])]

IsTrimOf(e, p) ==
    \E a, b \in 0..Len(p) :
        /\ a + b + Len(e) = Len(p)
        /\ \A j \in 1..a : p[j] = " "
        /\ \A j \in (Len(p) - b + 1)..Len(p) : p[j] = " "
        /\ e = SubSeq(p, a + 1, Len(p) - b)
        /\ e # << >> => (e[1] # " " /\ e[Len(e)] # " ")

\* the spec_url values inserted by the reply's call, in insertion order
InsertedUrls ==
    LET rows == SubSeq(api_specs, Len(SeededSpecs(store0)) + 1, Len(api_specs)) IN
    [k \in 1..Len(rows) |-> rows[k].spec_url]

\* the list l without its position k (0: the whole list)
Without(l, k) ==
    [n \in 1..(IF k = 0 THEN Len(l) ELSE Len(l) - 1) |-> IF k = 0 \/ n < k THEN l[n] ELSE l[n + 1]]

StoredNames(sid) == {services[k].name : k \in {j \in 1..Len(services) : services[j].session_id = sid}}

\* C29: a setup_test_environment in which the INSERT of one service failed
\* still returns its success summary; its session row is stored and every
\* other service of the compose content has its row.
C29_ServiceFailureDoesNotAbort ==
    \A i \in OpIds :
        LET o == ops[i]
            names == {svc.name : svc \in ComposeServices(o.content)} IN
        (o.kind = "setup" /\ "services" \in o.failed)
        => /\ Returned(o) /\ Reported(o.result) = "text"
           /\ o.sid \in 1..Len(test_sessions)
           /\ test_sessions[o.sid].status = InitialStatus("setup")
           /\ StoredNames(o.sid) \subseteq names
           /\ Cardinality(StoredNames(o.sid)) = Cardinality(names) - 1

\* C29 witness: a setup of the compose file with two services lost the INSERT
\* of the service the loop visited first, stored the other and has returned
C29_FirstOfTwoServicesLost ==
    \E i \in OpIds :
        /\ ops[i].kind = "setup" /\ ops[i].content = "two"
        /\ "services" \in ops[i].failed
        /\ Returned(ops[i]) /\ ops[i].result = "ok"
        /\ Cardinality(StoredNames(ops[i].sid)) = 1

\* the operation is inside its bracket: its bring-up succeeded, its tear-down
\* is registered and has not run
InBracket(o) ==
    /\ Len(o.ups) = 1
    /\ o.downs = << >>
    /\ \E k \in 1..Len(o.defers) : o.defers[k] = "down"

\* operation i probes in this step: it leaves its settle wait and runs its
\* discovery loop
Probes(i) ==
    /\ ops[i].kind \in {"testapp", "discover"}
    /\ ops[i].pc = "sleep" /\ ops'[i].pc # "sleep"

\* the load tool of operation i runs to its exit in this step
LoadToolRuns(i) == ops[i].k6 = "none" /\ ops'[i].k6 # "none"

\* the positions between the bring-up and the return of the handler
BracketPositions == {"sleep", "prepare", "k6"}

\* an operation between its bring-up and its return is inside its bracket
BracketHolds ==
    \A i \in OpIds : ops[i].pc \in BracketPositions => InBracket(ops[i])

\* probes and load-tool runs are steps of an operation inside its bracket that
\* has finished its settle wait, and they bring nothing up or down
BracketStep ==
    \A i \in OpIds :
        /\ (Probes(i) \/ LoadToolRuns(i))
           => /\ InBracket(ops[i])
              /\ ops'[i].ups = ops[i].ups /\ ops'[i].downs = << >>
              /\ projects' = projects
        /\ LoadToolRuns(i) => ops[i].pc = "k6"
        /\ (ops'[i].pc = "k6" /\ ops[i].pc # "k6") => ops[i].pc = "prepare"
        /\ (ops'[i].pc = "prepare" /\ ops[i].pc # "prepare") => ops[i].pc = "sleep"

\* C30: every discovery probe and every run of the load tool is made by an
\* operation after its own successful bring-up and settle wait and before its
\* own tear-down, and the discovery loop brings no runtime up or down.
C30_ProbesAndLoadInsideBracket == []BracketHolds /\ [][BracketStep]_vars

\* C30 witness: a test_application has probed and found a spec, run the load
\* tool, torn its runtime down and returned
C30_ProbedRanAndTornDown ==
    \E i \in OpIds :
        /\ ops[i].kind = "testapp" /\ Returned(ops[i])
        /\ ops[i].k6 = "ok"
        /\ Len(ops[i].ups) = 1 /\ Len(ops[i].downs) = 1
        /\ \E k \in 1..Len(api_specs) : api_specs[k].session_id = ops[i].sid
        /\ store0 = "empty"

\* the runtime operation j brought up is live: brought up, not yet torn down
RuntimeLive(j) == Len(ops[j].ups) = 1 /\ ops[j].downs = << >>

\* C31: no operation has torn down a project name under which another
\* operation has a live runtime; so two operations with live runtimes never
\* share a project name.
C31_TearDownSparesOthers ==
    \A i, j \in OpIds :
        (i # j /\ RuntimeLive(j))
        => /\ \A k \in 1..Len(ops[i].downs) : ops[i].downs[k][2] # ops[j].projectName
           /\ RuntimeLive(i) => ops[i].projectName # ops[j].projectName

\* the service rows of session sid
ServiceRowsOf(sid) == {k \in 1..Len(services) : services[k].session_id = sid}

\* the operations that store services: setup_test_environment and
\* test_application that created a session and lost no INSERT INTO services
StoredAllServices(o) ==
    o.kind \in {"setup", "testapp"} /\ o.sid # 0 /\ "services" \notin o.failed

\* C32: every session of setup_test_environment or test_application has one
\* service row per service of its compose content, under its own session id,
\* also when its compose file row was reused; every service row belongs to
\* one stored session, and two sessions on the same content have equally many
\* rows.
C32_SessionsOwnTheirServices ==
    /\ \A k \in 1..Len(services) : services[k].session_id \in 1..Len(test_sessions)
    /\ \A i \in OpIds :
          StoredAllServices(ops[i])
          => /\ {services[k].name : k \in ServiceRowsOf(ops[i].sid)}
                = {svc.name : svc \in ComposeServices(ops[i].content)}
             /\ Cardinality(ServiceRowsOf(ops[i].sid))
                = Cardinality(ComposeServices(ops[i].content))
    /\ \A i, j \in OpIds :
          (i # j /\ StoredAllServices(ops[i]) /\ StoredAllServices(ops[j])
           /\ ops[i].content = ops[j].content)
          => /\ ops[i].sid # ops[j].sid
             /\ Cardinality(ServiceRowsOf(ops[i].sid)) = Cardinality(ServiceRowsOf(ops[j].sid))

\* C32 witness: two sessions were created one after the other on the compose
\* file with two services, the second reusing the compose file row of the
\* first, and each has its two service rows
C32_TwoSessionsOnOneFile ==
    /\ Len(ops) = 2
    /\ StoredAllServices(ops[1]) /\ StoredAllServices(ops[2])
    /\ ops[1].content = "two" /\ ops[2].content = "two"
    /\ ops[1].cfid = ops[2].cfid
    /\ \A k \in 1..Len(compose_files) : compose_files[k].content = "two" => k = ops[1].cfid
    /\ Cardinality(ServiceRowsOf(ops[1].sid)) = 2
    /\ Cardinality(ServiceRowsOf(ops[2].sid)) = 2

\* the table new holds the rows of the table old, unchanged, at their places
RowsKept(old, new) ==
    /\ Len(new) >= Len(old)
    /\ \A k \in 1..Len(old) : new[k] = old[k]

\* a step deletes no row and changes no column of a stored row other than
\* status and completed_at of a session and completed_at and results of a run
AppendOnlyStep ==
    /\ RowsKept(compose_files, compose_files')
    /\ RowsKept(services, services')
    /\ RowsKept(api_specs, api_specs')
    /\ RowsKept(tests, tests')
    /\ RowsKept(metrics, metrics')
    /\ RowsKept(endpoints, endpoints')
    /\ Len(test_sessions') >= Len(test_sessions)
    /\ \A k \in 1..Len(test_sessions) :
          /\ test_sessions'[k].compose_file_id = test_sessions[k].compose_file_id
          /\ test_sessions'[k].session_name = test_sessions[k].session_name
    /\ Len(test_runs') >= Len(test_runs)
    /\ \A k \in 1..Len(test_runs) :
          /\ test_runs'[k].test_id = test_runs[k].test_id
          /\ test_runs'[k].vus = test_runs[k].vus

\* no session row and no run row has been updated more than once
UpdatedAtMostOnce ==
    /\ \A k \in 1..Len(test_sessions) : test_sessions[k].completed_writes <= 1
    /\ \A k \in 1..Len(test_runs) : test_runs[k].completed_writes <= 1

\* C33: the store is append-only: no step removes or reorders a row, the only
\* columns written after a row's INSERT are status and completed_at of a
\* session and completed_at and results of a run, each row at most once, and
\* a compose file row is never changed.
C33_AppendOnly == []UpdatedAtMostOnce /\ [][AppendOnlyStep]_vars

\* C33 witness: on the store an earlier server run left, a test_application
\* of the same content fetched from another source reused the compose file
\* row, which still names the old source, and has completed its session row
\* and its run row once each
C33_ReusedFileKeepsItsSource ==
    \E i \in OpIds :
        /\ store0 = "seeded"
        /\ ops[i].kind = "testapp" /\ Returned(ops[i])
        /\ ops[i].cfid = 1
        /\ Len(compose_files) = 1
        /\ compose_files[1].source_url = "./docker-compose.yml"
        /\ compose_files[1].source_url \notin Sources
        /\ ops[i].sid # 0
        /\ test_sessions[ops[i].sid].completed_writes = 1
        /\ ops[i].rid # 0 /\ test_runs[ops[i].rid].completed_writes = 1

\* C34: in every state of the store, also after operations that failed,
\* panicked or were cancelled, every session names a stored compose file,
\* every service, spec and test names a stored session, every run names a
\* stored test and every metrics row names a stored run.
C34_OwnershipChain ==
    /\ \A k \in 1..Len(test_sessions) :
          test_sessions[k].compose_file_id \in 1..Len(compose_files)
    /\ \A k \in 1..Len(services) : services[k].session_id \in 1..Len(test_sessions)
    /\ \A k \in 1..Len(api_specs) : api_specs[k].session_id \in 1..Len(test_sessions)
    /\ \A k \in 1..Len(tests) : tests[k].session_id \in 1..Len(test_sessions)
    /\ \A k \in 1..Len(test_runs) : test_runs[k].test_id \in 1..Len(tests)
    /\ \A k \in 1..Len(metrics) : metrics[k].run_id \in 1..Len(test_runs)

\* C34 witness: a run_performance_test stored its run and its metrics, and
\* then another operation lost a store write and returned an error or
\* panicked after it had written rows of its own
C34_ChainAfterFailure ==
    /\ Len(ops) = 2
    /\ ops[1].kind = "run" /\ Returned(ops[1])
    /\ \E k \in 1..Len(metrics) : metrics[k].run_id = ops[1].rid
    /\ Returned(ops[2]) /\ ops[2].fault
    /\ ops[2].result \in {"error", "panic"}
    /\ ops[2].sid > 1

\* the types a stored test may have
TestTypeEnum == {"load", "stress", "spike", "browser"}

\* C35: every row of tests has a type among load, stress, spike and browser,
\* whatever testType string the caller of generate_api_tests passed.
C35_TypeInEnum ==
    \A k \in 1..Len(tests) : tests[k].type \in TestTypeEnum

\* the length of a k6 duration in seconds
Seconds(d) ==
    CASE d = "10s" -> 10
      [] d = "30s" -> 30
      [] d = "2m" -> 120
      [] d = "5m" -> 300

\* the script is the ramping-virtual-user profile: up, sustain, down to 0
StressProfile(script) ==
    LET c == script.config IN
    /\ script.executor = "ramping-vus"
    /\ Len(c.stages) = 3
    /\ c.stages[1].target > 0
    /\ c.stages[2].target = c.stages[1].target
    /\ c.stages[3].target = 0
    /\ c.vus = << >> /\ c.duration = << >> /\ c.startRate = << >>

\* the script is the arrival-rate profile: a short burst between two stages
\* at the start rate
SpikeProfile(script) ==
    LET c == script.config IN
    /\ script.executor = "ramping-arrival-rate"
    /\ c.startRate # << >> /\ c.timeUnit # << >>
    /\ Len(c.stages) = 3
    /\ c.stages[1].target = c.startRate[1]
    /\ c.stages[3].target = c.startRate[1]
    /\ c.stages[2].target > c.startRate[1]
    /\ Seconds(c.stages[2].duration) < Seconds(c.stages[1].duration)
    /\ Seconds(c.stages[2].duration) < Seconds(c.stages[3].duration)
    /\ c.vus = << >> /\ c.duration = << >>

\* the script is the constant profile: fixed virtual users, fixed duration
ConstantProfile(script) ==
    LET c == script.config IN
    /\ script.executor = "constant-vus"
    /\ c.vus = <<10>> /\ c.duration = <<"30s">>
    /\ c.stages = << >> /\ c.startRate = << >> /\ c.timeUnit = << >>

\* C36: the script of every test generate_api_tests stored has the profile of
\* its test type: stress the ramping-virtual-user executor with three stages
\* (up, sustain, down to 0), spike the ramping-arrival-rate executor with a
\* short high-rate stage between two low-rate stages, and load, an absent
\* argument and every other string the constant-virtual-user executor with a
\* fixed count and duration; the executor and the configuration are of the
\* same profile.
C36_ProfileOfTestType ==
    \A k \in 1..Len(tests) :
        LET row == tests[k] IN
        /\ row.script.scenario = row.type
        /\ CASE row.type = "stress" -> StressProfile(row.script)
             [] row.type = "spike" -> SpikeProfile(row.script)
             [] OTHER -> ConstantProfile(row.script)

\* C36 witness: tests of type stress, spike and of a string that is neither
\* (differing from stress in case only) are stored, the last one generated
\* without the argument
C36_AllProfilesGenerated ==
    /\ Len(tests) = 3
    /\ tests[1].type = "stress" /\ tests[2].type = "Stress"
    /\ tests[3].type = "load"
    /\ reply.tool = "generate_api_tests" /\ reply.arg = << >> /\ reply.testId = 3

\* the words of the request hold one of the given words
Mentions(ws) == \E k \in 1..Len(reply.words) : reply.words[k] \in ws

\* the actions the instruction words call for, in the fixed order
ExpectedActions ==
    (IF Mentions({"Click"}) /\ Mentions({"button"}) THEN <<ClickAction>> ELSE << >>)
    \o (IF Mentions({"type", "center"}) THEN <<TypeAction>> ELSE << >>)
    \o (IF Mentions({"WAIT"}) THEN <<WaitAction>> ELSE << >>)

QuickStep ==
    \E i \in 1..Len(ops') :
        /\ ops'[i].kind = "quick"
        /\ i > Len(ops) \/ ops'[i] # ops[i]

\* what a step of quick_performance_test may do to the store: append one
\* compose file, append one session with status running, nothing else
QuickFrame ==
    /\ UNCHANGED <<services, api_specs, tests, test_runs, metrics, endpoints>>
    /\ RowsKept(compose_files, compose_files')
    /\ Len(compose_files') <= Len(compose_files) + 1
    /\ RowsKept(test_sessions, test_sessions')
    /\ Len(test_sessions') <= Len(test_sessions) + 1
    /\ \A k \in (Len(test_sessions) + 1)..Len(test_sessions') :
          test_sessions'[k].status = "running"

\* the rows a quick_performance_test owns at any time: its session, still
\* running, on its compose file, and no service, spec or test of that session
QuickRows ==
    \A i \in OpIds :
        (ops[i].kind = "quick" /\ ops[i].sid # 0) =>
            /\ ops[i].sid \in 1..Len(test_sessions)
            /\ test_sessions[ops[i].sid].status = "running"
            /\ test_sessions[ops[i].sid].compose_file_id = ops[i].cfid
            /\ \A k \in 1..Len(services) : services[k].session_id # ops[i].sid
            /\ \A k \in 1..Len(api_specs) : api_specs[k].session_id # ops[i].sid
            /\ \A k \in 1..Len(tests) : tests[k].session_id # ops[i].sid

RECURSIVE SpecsFrom(_, _)
SpecsFrom(sid, k) ==
    IF k > Len(api_specs) THEN << >>
    ELSE (IF api_specs[k].session_id = sid THEN <<api_specs[k].spec_url>> ELSE << >>)
         \o SpecsFrom(sid, k + 1)

\* url is the first path of the probing order that answers 200 on the port
FirstAnswering(port, url) ==
    \E h \in 1..Len(AutoCommonPaths) :
        /\ url = SpecURL(port, AutoCommonPaths[h])
        /\ url \in probeOK
        /\ \A j \in 1..(h - 1) : SpecURL(port, AutoCommonPaths[j]) \notin probeOK

\* the host ports of the session's services that have a first port mapping
SessionPorts(sid) ==
    {FirstHostPort(services[k].ports) :
        k \in {r \in 1..Len(services) : services[r].session_id = sid}} \ {<< >>}

\* C39: the specs test_application stored for its session are at most one
\* per service, each the first path of /openapi.json, /swagger.json,
\* /api-docs, /api/v3/openapi.json that answers 200 on the service's first
\* host port, also when later paths answer; a service with no answering path
\* or without a port mapping has none; and right after the discovery whose
\* INSERTs succeeded every service with an answering path has its record.
C39_FirstAnsweringPathPerService ==
    \A i \in OpIds :
        (ops[i].kind = "testapp" /\ ops[i].sid # 0) =>
            LET sid == ops[i].sid
                specs == SpecsFrom(sid, 1) IN
            /\ \A a \in 1..Len(specs) :
                  /\ \E port \in SessionPorts(sid) : FirstAnswering(port, specs[a])
                  /\ \A b \in 1..Len(specs) : a # b => specs[a][2] # specs[b][2]
            /\ (ops[i].pc = "prepare" /\ "specs" \notin ops[i].failed) =>
                  \A port \in SessionPorts(sid) :
                      (\E h \in 1..Len(AutoCommonPaths) :
                           SpecURL(port, AutoCommonPaths[h]) \in probeOK)
                      => \E a \in 1..Len(specs) : FirstAnswering(port, specs[a])

\* C39 witness: /openapi.json and /swagger.json both answer on port 8080 and
\* the discovery of a test_application has stored /openapi.json alone
C39_SecondAnswerNotRecorded ==
    \E i \in OpIds :
        /\ ops[i].kind = "testapp" /\ ops[i].pc = "prepare"
        /\ store0 = "empty"
        /\ SpecURL(<<"8080">>, "/swagger.json") \in probeOK
        /\ SpecsFrom(ops[i].sid, 1) = <<SpecURL(<<"8080">>, "/openapi.json")>>

\* the names of the services stored for session sid, in insertion order
ServiceNames(sid) ==
    LET rows == SessionServices(sid) IN [k \in 1..Len(rows) |-> services[rows[k]].name]

\* C40: two operations that stored the services of the same compose content,
\* with the same probe responses and no failed INSERT, stored them in the same
\* order.
C40_SameContentSameServiceOrder ==
    \A i, j \in OpIds :
        (/\ StoredAllServices(ops[i]) /\ StoredAllServices(ops[j])
         /\ ops[i].kind = ops[j].kind
         /\ ops[i].content = ops[j].content)
        => ServiceNames(ops[i].sid) = ServiceNames(ops[j].sid)

====
